---- MODULE Spec2Model ----
(***************************************************************************)
(* Model of the PDF report generator: the page sequence produced by        *)
(* generatePDF (pdf-generator.js), the promise and output stream it        *)
(* drives, and the /generate request handler of server.js.                 *)
(*                                                                         *)
(* Lengths are in hundredths of a point, so that every constant of the     *)
(* source (0.75 inch, 2.8 inch, 841.89 pt, ...) is an integer.             *)
(***************************************************************************)
EXTENDS Integers, Sequences, FiniteSets, TLC

\* ---------------------------------------------------------------- bounds
MaxCalcs == 2
MaxFloorPlans == 2
MaxGallery == 3
MaxClock == 2
MaxRequests == 2
MaxImages == 1
MaxScore == 102

\* ------------------------------------------------------- source constants
A4_HEIGHT == 84189
INCH == 7200
MARGIN == (75 * INCH) \div 100
HEADER_TOP_OFFSET == (45 * INCH) \div 100
estimatedLogoHeight == (((14 * INCH) \div 10) * 4) \div 10
contentY == HEADER_TOP_OFFSET + estimatedLogoHeight + 1200 + 900 + 2000
galleryHeight == (28 * INCH) \div 10
gallerySpacing == 6000
titlePadding == 2800

\* doc.heightOfString('Property Images', ...) at 24pt Helvetica-Bold: one
\* line of 1.156 or 1.19 times the font size, depending on the backend's
\* font metrics.
TitleHeights == {2775, 2856}

\* ------------------------------------------------------------ input sets
Undefined == "undefined"
CalcTypes == {"standard-btl", "flip"}
FloorPaths == {"plan_a.png", "plan_b.png"}
GalleryNames == <<"room_1.jpg", "room_2.jpg", "room_3.jpg", "room_4.jpg", "room_5.jpg", "room_6.jpg">>
OutputPaths == {"null", "nonstring", "empty", "unwritable", "ok"}
KeyFeatures == {"string", "nonstring"}

SeqsUpTo(S, n) == UNION {[1..k -> S] : k \in 0..n}

\* A JS value: undefined, an array of type names, a string (kept as its
\* symbols: "," " " or a whole name), a scalar that is neither (a number),
\* or an object (a calculator_<type> sub-mapping, kept as the value of its
\* purchase_price field when it has one).
JSValue(kind, items) == [kind |-> kind, items |-> items]
SelectedInputs ==
    {JSValue("undefined", <<>>), JSValue("scalar", <<>>)}
    \cup {JSValue("array", s) : s \in SeqsUpTo(CalcTypes, MaxCalcs)}
    \cup {JSValue("string", s) : s \in {<<",">>, <<" ", "brr", ",">>}}

\* Gallery lists: the first k of distinct file names.
GalleryInputs == {SubSeq(GalleryNames, 1, k) : k \in 0..MaxGallery}

\* ------------------------------------------------------------- variables
VARIABLES
    outputPath,     \* kind of the outputPath argument
    data,           \* the caller's data mapping
    images,         \* the caller's categorized image path lists
    data0,          \* data as it was when generatePDF was called
    images0,        \* images as they were when generatePDF was called
    pc,             \* position inside generatePDF
    pages,          \* the document: a sequence of pages, each a sequence of draw operations
    selectedCalculators, \* createInvestmentPage's normalized list
    index,          \* loop index of the section being built
    currentY,       \* the gallery's vertical cursor
    dataForCalc,    \* calculateCalculatorValues' merged copy: <<>> or <<the object>>
    promise,        \* "pending", "fulfilled" or "rejected"
    stream,         \* "none", "open", "finished" or "errored"
    docEnded,       \* doc.end() was called
    listening,      \* the 'finish' and 'error' listeners are attached
    uncaught,       \* an 'error' event was emitted with no listener
    \* --- the /generate handler of server.js
    clock,          \* Date.now(), in milliseconds
    req,            \* per request: position, outPath, temp files, response
    outFiles,       \* per report-<ms>.pdf path: the request whose document it holds, 0 if absent
    tempOnDisk,     \* the image files that exist: temporary ones and the bundled logo
    \* --- calculator-logic.js
    calcInput,      \* the input mapping given to calculateInvestment
    calcResult,     \* the mapping it returned
    calcPc,         \* "idle", "called" or "returned"
    \* --- parseCurrency and formatCurrency
    curImpl,        \* the file whose pair of functions is run
    curLocale,      \* the default locale of the host
    curX,           \* the amount given to formatCurrency
    curValue,       \* the value given to parseCurrency
    curParsed,      \* the number parseCurrency returned
    curPc,          \* "idle", "format", "formatted", "roundtrip", "parse" or "parsed"
    \* --- createEPCChart
    epcData,        \* the ratings of the data mapping
    epcY,           \* the y the chart is drawn at
    epcBars,        \* the bars drawn, from A down to G
    epcBadges,      \* the value badges drawn: current, potential
    epcPc,          \* "idle", "called" or "drawn"
    \* --- calculateCalculatorValues and renderCalculatorSection
    secType,        \* the calculator type of the section
    secCalcData,    \* the calculator_<type> sub-mapping
    secAllData,     \* the top-level data mapping
    secInput,       \* the mapping given to calculateInvestment
    secValues,      \* the values calculateCalculatorValues returned
    secRows,        \* the figures renderCalculatorSection wrote
    secPc,          \* "idle", "called", "calculated" or "rendered"
    \* --- addImageToPDF, the gallery and the city map page on a disk
    imgDisk,        \* what each path leads to
    imgGallery,     \* the gallery's image paths
    imgDirections,  \* images.directions[0], or null
    imgCity,        \* the city image paths
    imgDoc,         \* the document laid out on the disk as it is
    imgRef,         \* the document laid out with every path a valid image
    imgIndex,       \* loop index of the gallery
    imgPc,          \* "idle", "gallery", "galleryloop", "citymap", "done" or "aborted"
    \* --- createCoverPage: the hero image and the thumbnails
    covCover,       \* images.cover
    covProperty,    \* images.property
    covMain,        \* mainImagePath
    covDrawn,       \* the image slots drawn on the cover page
    covPc,          \* position in createCoverPage
    \* --- the /proxy-image handler
    prxUrl,         \* req.query.url
    prxFetched,     \* the host names protocol.get was called with, in order
    prxRedirectCount,\* redirectCount of the fetchImage call in flight
    prxResponses,   \* the status codes of the responses sent
    prxPc           \* "idle", "received", "fetching" or "done"

genVars == <<outputPath, data, images, data0, images0, pc, pages, selectedCalculators,
             index, currentY, dataForCalc, promise, stream, docEnded, listening, uncaught>>

srvVars == <<clock, req, outFiles, tempOnDisk>>

calcVars == <<calcInput, calcResult, calcPc>>

curVars == <<curImpl, curLocale, curX, curValue, curParsed, curPc>>

epcVars == <<epcData, epcY, epcBars, epcBadges, epcPc>>

secVars == <<secType, secCalcData, secAllData, secInput, secValues, secRows, secPc>>

imgVars == <<imgDisk, imgGallery, imgDirections, imgCity, imgDoc, imgRef, imgIndex, imgPc>>

covVars == <<covCover, covProperty, covMain, covDrawn, covPc>>

prxVars == <<prxUrl, prxFetched, prxRedirectCount, prxResponses, prxPc>>

fnVars == <<calcVars, curVars, epcVars, secVars, imgVars, covVars, prxVars>>

vars == <<genVars, srvVars, fnVars>>

\* ------------------------------------------------------ document helpers
Op(op, sec, arg, y) == [op |-> op, sec |-> sec, arg |-> arg, y |-> y]

\* doc.addPage(): a new empty page becomes the current page.
AddPage(doc) == Append(doc, <<>>)

\* Any drawing call: the operation lands on the current (last) page.
Draw(doc, o) == [doc EXCEPT ![Len(doc)] = Append(@, o)]

DrawAll(doc, os) == [doc EXCEPT ![Len(doc)] = @ \o os]

drawHeader(doc, sec) == Draw(doc, Op("header", sec, "logo", HEADER_TOP_OFFSET))

\* addImageToPDF draws either the image or a placeholder, always in the box
\* at (x, y); a null path gives the placeholder.
addImageToPDF(doc, sec, path, y) == Draw(doc, Op("image", sec, path, y))

\* Promise semantics: only the first resolve/reject call has an effect.
Resolve(p) == IF p = "pending" THEN "fulfilled" ELSE p
Reject(p) == IF p = "pending" THEN "rejected" ELSE p

\* Mutation: the test forgets the height of the image box.
GalleryOverflowsNoHeight(y) == y + gallerySpacing > A4_HEIGHT - MARGIN

\* Line 1287: the test that starts a new gallery page.
GalleryOverflows(y) == y + galleryHeight + gallerySpacing > A4_HEIGHT - MARGIN

\* ---------------------------------------------------------- page sequence
\* Mutation: the two information pages are built in the other order.
SectionOrderSwapped == <<"cover", "investment", "otherinfo", "keyinfo", "floor", "gallery", "citymap">>

\* The order of the page-building calls in generatePDF.
SectionOrder == <<"cover", "investment", "keyinfo", "otherinfo", "floor", "gallery", "citymap">>

NextSection(s) ==
    LET i == CHOOSE k \in 1..Len(SectionOrder) : SectionOrder[k] = s
    IN IF i < Len(SectionOrder) THEN SectionOrder[i + 1] ELSE "end"

\* ------------------------------------------- calculator list normalization
\* JS truthiness: undefined and the empty string are falsy; arrays (even
\* empty), objects and the non-zero scalar are truthy.
Truthy(v) == CASE v.kind = "undefined" -> FALSE
               [] v.kind = "string" -> Len(v.items) > 0
               [] OTHER -> TRUE

\* String.prototype.split(','): the pieces between the commas.
RECURSIVE Split(_)
Split(str) ==
    IF \E i \in 1..Len(str) : str[i] = ","
    THEN LET i == CHOOSE k \in 1..Len(str) : str[k] = "," /\ \A j \in 1..(k - 1) : str[j] # ","
         IN <<SubSeq(str, 1, i - 1)>> \o Split(SubSeq(str, i + 1, Len(str)))
    ELSE <<str>>

\* String.prototype.trim(): leading and trailing whitespace removed.
RECURSIVE Trim(_)
Trim(tok) ==
    IF tok = <<>> THEN tok
    ELSE IF Head(tok) = " " THEN Trim(Tail(tok))
    ELSE IF tok[Len(tok)] = " " THEN Trim(SubSeq(tok, 1, Len(tok) - 1))
    ELSE tok

\* The calculator name a trimmed piece spells; a piece of several symbols
\* spells a name no calculator has.
TokenName(tok) == IF Len(tok) = 1 THEN tok[1] ELSE "other"

RECURSIVE SplitTrimFilter(_)
SplitTrimFilter(toks) ==
    IF toks = <<>> THEN <<>>
    ELSE LET t == Trim(Head(toks))
         IN (IF t = <<>> THEN <<>> ELSE <<TokenName(t)>>) \o SplitTrimFilter(Tail(toks))

\* createInvestmentPage, lines 605-626: the list of calculator types.
NormalizeCalculators(d) ==
    LET sel0 == IF Truthy(d.selected_calculators) THEN d.selected_calculators
                ELSE IF d.calculator_type # Undefined
                     THEN JSValue("array", <<d.calculator_type>>)
                     ELSE JSValue("array", <<"standard-btl">>)
        sel1 == IF sel0.kind \in {"array", "string"} /\ Len(sel0.items) = 0
                THEN JSValue("array", <<"standard-btl">>) ELSE sel0
        sel2 == IF sel1.kind = "string"
                THEN JSValue("array", SplitTrimFilter(Split(sel1.items))) ELSE sel1
    IN IF sel2.kind = "array" THEN sel2.items ELSE <<"7">>

\* ----------------------------------------------- calculateCalculatorValues
\* data[`calculator_${calculatorType}`] || {}
CalcDataOf(d, calculatorType) ==
    IF calculatorType = "flip" /\ Truthy(d.calculator_flip)
    THEN d.calculator_flip ELSE JSValue("object", <<>>)

\* { ...allData, ...calcData }: a new object, calcData's fields winning.
Spread(allData, calcData) ==
    IF Len(calcData.items) > 0
    THEN [allData EXCEPT !.purchase_price = calcData.items[1]]
    ELSE allData

\* Mutation: the merge is done in place (Object.assign(allData, calcData)),
\* so the caller's object is the merged one.
CalcObjectsInPlace(allData, calcData, calculatorType) ==
    [caller |-> [Spread(allData, calcData) EXCEPT !.calculator_type = calculatorType],
     copy |-> [Spread(allData, calcData) EXCEPT !.calculator_type = calculatorType]]

\* Lines 244-245: the caller's object and the merged copy after
\* dataForCalc.calculator_type = calculatorType.
CalcObjects(allData, calcData, calculatorType) ==
    [caller |-> allData,
     copy |-> [Spread(allData, calcData) EXCEPT !.calculator_type = calculatorType]]

\* Lines 1135-1164: the caller's city list and the padded local queue.
CityQueue(cityImages) ==
    [caller |-> cityImages,
     queue |-> [i \in 1..3 |-> IF i <= Len(cityImages) THEN cityImages[i] ELSE "null"]]

\* ------------------------------------------------------ JavaScript numbers
\* A Number is a finite rational n/d in lowest terms (d > 0), NaN, or an
\* infinity (n = 1 or -1).  Binary rounding of finite values and negative
\* zero are outside the model.
\*
\* The operators bind their operands first (x \in {a}), so that an operand
\* which is itself a long expression is evaluated once.
RECURSIVE GCD(_, _)
GCD(a, b) ==
    IF b = 0 THEN a ELSE CHOOSE g \in {GCD(y, x % y) : x \in {a}, y \in {b}} : TRUE

Abs(x) == IF x < 0 THEN -x ELSE x

Sign(x) == IF x < 0 THEN -1 ELSE IF x > 0 THEN 1 ELSE 0

Fin(a, b) ==
    CHOOSE r \in {[k |-> "fin", n |-> (Sign(d) * n) \div GCD(Abs(n), Abs(d)),
                                d |-> Abs(d) \div GCD(Abs(n), Abs(d))] :
                    n \in {a}, d \in {b}} : TRUE

Num(n) == [k |-> "fin", n |-> n, d |-> 1]

NaN == [k |-> "nan", n |-> 0, d |-> 1]

Infinity(s) == [k |-> "inf", n |-> s, d |-> 1]

isFinite(x) == x.k = "fin"

NSign(x) == IF x.k = "nan" THEN 0 ELSE Sign(x.n)

Neg(a) == CHOOSE r \in {[x EXCEPT !.n = -x.n] : x \in {a}} : TRUE

\* x + y
Add(a, b) ==
    CHOOSE r \in
        {IF x.k = "nan" \/ y.k = "nan" THEN NaN
         ELSE IF x.k = "inf" /\ y.k = "inf" THEN (IF x.n = y.n THEN x ELSE NaN)
         ELSE IF x.k = "inf" THEN x
         ELSE IF y.k = "inf" THEN y
         ELSE Fin(x.n * (y.d \div GCD(x.d, y.d)) + y.n * (x.d \div GCD(x.d, y.d)),
                  (x.d \div GCD(x.d, y.d)) * y.d) :
            x \in {a}, y \in {b}} : TRUE

\* x - y
Sub(x, y) == Add(x, Neg(y))

\* x * y
Mul(a, b) ==
    CHOOSE r \in
        {IF x.k = "nan" \/ y.k = "nan" THEN NaN
         ELSE IF x.k = "inf" \/ y.k = "inf"
              THEN (IF NSign(x) * NSign(y) = 0 THEN NaN ELSE Infinity(NSign(x) * NSign(y)))
         ELSE Fin((x.n \div GCD(Abs(x.n), y.d)) * (y.n \div GCD(Abs(y.n), x.d)),
                  (x.d \div GCD(Abs(y.n), x.d)) * (y.d \div GCD(Abs(x.n), y.d))) :
            x \in {a}, y \in {b}} : TRUE

\* x / y
Div(a, b) ==
    CHOOSE r \in
        {IF x.k = "nan" \/ y.k = "nan" THEN NaN
         ELSE IF x.k = "inf" THEN (IF y.k = "inf" THEN NaN
                                   ELSE Infinity(x.n * (IF y.n < 0 THEN -1 ELSE 1)))
         ELSE IF y.k = "inf" THEN Num(0)
         ELSE IF y.n = 0 THEN (IF x.n = 0 THEN NaN ELSE Infinity(Sign(x.n)))
         ELSE Mul(x, Fin(y.d, y.n)) :
            x \in {a}, y \in {b}} : TRUE

\* x > y: false when either side is NaN
Gt(a, b) ==
    \E x \in {a}, y \in {b} :
        /\ x.k # "nan" /\ y.k # "nan"
        /\ IF x.k = "inf" THEN x.n = 1 /\ y # x
           ELSE IF y.k = "inf" THEN y.n = -1
           ELSE x.n * y.d > y.n * x.d

\* ToBoolean of a Number: 0 and NaN are falsy.
NumTruthy(x) == x.k = "inf" \/ (x.k = "fin" /\ x.n # 0)

\* x || y on Numbers
OrElse(a, b) == CHOOSE r \in {IF NumTruthy(x) THEN x ELSE b : x \in {a}} : TRUE

\* Math.floor
Floor(a) == CHOOSE r \in {IF x.k = "fin" THEN Num(x.n \div x.d) ELSE x : x \in {a}} : TRUE

\* Math.round: half-way cases go up
Round(a) ==
    CHOOSE r \in {IF x.k = "fin" THEN Num((2 * x.n + x.d) \div (2 * x.d)) ELSE x :
                    x \in {a}} : TRUE

\* ------------------------------------------------------ JavaScript strings
\* A string is a sequence of characters; "nnbsp" is U+202F, the narrow
\* no-break space some locales group digits with.
DigitChars == <<"0", "1", "2", "3", "4", "5", "6", "7", "8", "9">>

Digits == {DigitChars[i] : i \in DOMAIN DigitChars}

DigitVal(c) == (CHOOSE i \in DOMAIN DigitChars : DigitChars[i] = c) - 1

\* \s of a regular expression, and the white space parseFloat skips
WhiteSpace == {" ", "nnbsp"}

InfinityChars == <<"I", "n", "f", "i", "n", "i", "t", "y">>

RECURSIVE Pow10(_)
Pow10(n) == IF n = 0 THEN 1 ELSE 10 * Pow10(n - 1)

\* The number of digits of s from position i on.
RECURSIVE DigitRun(_, _)
DigitRun(s, i) == IF i <= Len(s) /\ s[i] \in Digits THEN 1 + DigitRun(s, i + 1) ELSE 0

\* The value of the n digits of s from position i on.
RECURSIVE DigitsValue(_, _, _)
DigitsValue(s, i, n) ==
    IF n = 0 THEN 0 ELSE 10 * DigitsValue(s, i, n - 1) + DigitVal(s[i + n - 1])

StartsWith(s, i, p) ==
    /\ Len(s) >= i + Len(p) - 1
    /\ \A j \in DOMAIN p : s[i + j - 1] = p[j]

RECURSIVE TrimStart(_)
TrimStart(s) == IF s # <<>> /\ Head(s) \in WhiteSpace THEN TrimStart(Tail(s)) ELSE s

\* String.prototype.replace(/[£,\s]/g, '')
StripCurrency(s) == SelectSeq(s, LAMBDA c : c \notin ({"£", ","} \cup WhiteSpace))

\* parseFloat of a string: the longest prefix that is a decimal literal
\* (exponents are not written by any input of the model).
parseFloatOfString(s0) ==
    CHOOSE r \in
        {LET signed == s # <<>> /\ s[1] \in {"-", "+"}
             neg == s # <<>> /\ s[1] = "-"
             i == IF signed THEN 2 ELSE 1
             ni == DigitRun(s, i)
             hasDot == i + ni <= Len(s) /\ s[i + ni] = "."
             nf == IF hasDot THEN DigitRun(s, i + ni + 1) ELSE 0
             mag == Fin(DigitsValue(s, i, ni) * Pow10(nf) + DigitsValue(s, i + ni + 1, nf),
                        Pow10(nf))
         IN IF StartsWith(s, i, InfinityChars) THEN Infinity(IF neg THEN -1 ELSE 1)
            ELSE IF ni + nf = 0 THEN NaN
            ELSE IF neg THEN Neg(mag) ELSE mag :
            s \in {TrimStart(s0)}} : TRUE

RECURSIVE NatToString(_)
NatToString(n) ==
    IF n < 10 THEN <<DigitChars[n + 1]>> ELSE NatToString(n \div 10) \o <<DigitChars[(n % 10) + 1]>>

\* The decimals of a fraction num / 10^f, written with f digits.
RECURSIVE FractionToString(_, _)
FractionToString(num, f) ==
    IF f = 0 THEN <<>> ELSE FractionToString(num \div 10, f - 1) \o <<DigitChars[(num % 10) + 1]>>

\* Number::toString, for the finite values that have at most three decimals.
NumberToString(x) ==
    IF x.k = "nan" THEN <<"N", "a", "N">>
    ELSE IF x.k = "inf" THEN (IF x.n < 0 THEN <<"-">> ELSE <<>>) \o InfinityChars
    ELSE LET f == CHOOSE e \in 0..3 : Pow10(e) % x.d = 0 /\ \A e2 \in 0..(e - 1) : Pow10(e2) % x.d # 0
             scaled == Abs(x.n) * (Pow10(f) \div x.d)
         IN (IF x.n < 0 THEN <<"-">> ELSE <<>>)
            \o NatToString(scaled \div Pow10(f))
            \o (IF f > 0 THEN <<".">> \o FractionToString(scaled % Pow10(f), f) ELSE <<>>)

\* ------------------------------------------------------- JavaScript values
\* The values a JSON body can carry in a field, and an absent field.
VUndefined == [t |-> "undefined", num |-> NaN, chars |-> <<>>]

VNull == [t |-> "null", num |-> NaN, chars |-> <<>>]

VNumber(x) == [t |-> "number", num |-> x, chars |-> <<>>]

VString(s) == [t |-> "string", num |-> NaN, chars |-> s]

\* ToBoolean
ValueTruthy(v) ==
    CASE v.t = "number" -> NumTruthy(v.num)
      [] v.t = "string" -> v.chars # <<>>
      [] OTHER -> FALSE

\* String(value), value.toString()
StringOf(v) ==
    CASE v.t = "number" -> NumberToString(v.num)
      [] v.t = "string" -> v.chars
      [] v.t = "null" -> <<"n", "u", "l", "l">>
      [] OTHER -> <<"u", "n", "d", "e", "f", "i", "n", "e", "d">>

\* parseFloat(value)
parseFloat(v) == parseFloatOfString(StringOf(v))

\* -------------------------------------------------------- calculator-logic.js
\* Mutation: a string that is not a number is returned as NaN.
parseCurrencyNoFallback(value) ==
    IF ~ValueTruthy(value) THEN Num(0)
    ELSE parseFloatOfString(StripCurrency(StringOf(value)))

\* parseCurrency, lines 3-7
parseCurrency(value) ==
    IF ~ValueTruthy(value) THEN Num(0)
    ELSE OrElse(parseFloatOfString(StripCurrency(StringOf(value))), Num(0))

\* parseFloat(field) || fallback, the form every percentage-like field is read with
PercentOr(value, fallback) == OrElse(parseFloat(value), fallback)

\* calculateStandardBTL: the fields of the request as the body parses them.
StandardBTLInputs(d) ==
    [purchasePrice |-> parseCurrency(d.purchase_price),
     depositPercent |-> PercentOr(d.deposit_percent, Num(20)),
     monthlyRent |-> parseCurrency(d.monthly_rent),
     mortgageRate |-> PercentOr(d.mortgage_rate, Fin(58, 10)),
     stampDuty |-> parseCurrency(d.stamp_duty),
     surveyCost |-> parseCurrency(d.survey_cost),
     legalFees |-> parseCurrency(d.legal_fees), loanSetup |-> parseCurrency(d.loan_setup),
     councilTax |-> parseCurrency(d.council_tax),
     repairs |-> parseCurrency(d.repairs_maintenance),
     utilities |-> parseCurrency(d.utilities), water |-> parseCurrency(d.water),
     broadband |-> parseCurrency(d.broadband_tv), insurance |-> parseCurrency(d.insurance)]

\* calculateStandardBTL, lines 15-45: every local constant of the body.
StandardBTLLocals(d) ==
    CHOOSE locals \in
        {LET depositAmount ==
                 Mul(in.purchasePrice, Div(in.depositPercent, Num(100)))
             annualRent ==
                 Mul(in.monthlyRent, Num(12))
             rentalYield ==
                 IF Gt(in.purchasePrice, Num(0))
                 THEN Mul(Div(annualRent, in.purchasePrice), Num(100)) ELSE Num(0)
             totalPurchaseCosts ==
                 Add(Add(Add(in.stampDuty, in.surveyCost), in.legalFees), in.loanSetup)
             totalInvestment ==
                 Add(depositAmount, totalPurchaseCosts)
             mortgageAmount ==
                 Sub(in.purchasePrice, depositAmount)
             annualMortgageInterest ==
                 Mul(mortgageAmount, Div(in.mortgageRate, Num(100)))
             totalAnnualExpenses ==
                 Add(Add(Add(Add(Add(Add(annualMortgageInterest, in.councilTax),
                 in.repairs), in.utilities), in.water), in.broadband), in.insurance)
             annualProfit ==
                 Sub(annualRent, totalAnnualExpenses)
             monthlyProfit ==
                 Div(annualProfit, Num(12))
             roi ==
                 IF Gt(totalInvestment, Num(0))
                 THEN Mul(Div(annualProfit, totalInvestment), Num(100)) ELSE Num(0)
         IN in @@
            [depositAmount |-> depositAmount, annualRent |-> annualRent,
             rentalYield |-> rentalYield, totalPurchaseCosts |-> totalPurchaseCosts,
             totalInvestment |-> totalInvestment, mortgageAmount |-> mortgageAmount,
             annualMortgageInterest |-> annualMortgageInterest,
             totalAnnualExpenses |-> totalAnnualExpenses, annualProfit |-> annualProfit,
             monthlyProfit |-> monthlyProfit, roi |-> roi] :
            in \in {StandardBTLInputs(d)}} : TRUE

\* The keys of a record r kept in the returned mapping.
Pick(r, keys) == CHOOSE m \in {[key \in keys |-> x[key]] : x \in {r}} : TRUE

\* Mutation: the mortgage is the price plus the deposit.
calculateStandardBTLMortgagePlus(d) ==
    LET locals == StandardBTLLocals(d)
    IN [Pick(locals,
             {"purchasePrice", "depositAmount", "mortgageAmount", "totalInvestment", "annualRent",
              "monthlyRent", "rentalYield", "totalAnnualExpenses", "annualProfit",
              "monthlyProfit", "roi"})
        EXCEPT !.mortgageAmount = Add(locals.purchasePrice, locals.depositAmount)]

\* calculateStandardBTL, lines 47-59: the returned mapping.
calculateStandardBTL(d) ==
    Pick(StandardBTLLocals(d),
         {"purchasePrice", "depositAmount", "mortgageAmount", "totalInvestment", "annualRent",
          "monthlyRent", "rentalYield", "totalAnnualExpenses", "annualProfit", "monthlyProfit",
          "roi"})

\* calculateBRR: the fields of the request as the body parses them.
BRRInputs(d) ==
    [purchasePrice |-> parseCurrency(d.purchase_price),
     refurbCost |-> parseCurrency(d.refurb_cost),
     afterRefurbValue |-> parseCurrency(d.after_refurb_value),
     depositPercent |-> PercentOr(d.deposit_percent, Num(20)),
     mortgageRate |-> PercentOr(d.mortgage_rate, Fin(58, 10)),
     refinanceLTV |-> PercentOr(d.refinance_ltv, Num(75)),
     monthlyRent |-> parseCurrency(d.monthly_rent),
     councilTax |-> parseCurrency(d.council_tax),
     repairs |-> parseCurrency(d.repairs_maintenance),
     insurance |-> parseCurrency(d.insurance)]

\* calculateBRR, lines 64-91
BRRLocals(d) ==
    CHOOSE locals \in
        {LET depositAmount ==
                 Mul(in.purchasePrice, Div(in.depositPercent, Num(100)))
             initialMortgage ==
                 Sub(in.purchasePrice, depositAmount)
             totalInitialInvestment ==
                 Add(depositAmount, in.refurbCost)
             refinanceAmount ==
                 Mul(in.afterRefurbValue, Div(in.refinanceLTV, Num(100)))
             moneyBack ==
                 Sub(refinanceAmount, initialMortgage)
             netInvestment ==
                 Sub(totalInitialInvestment, moneyBack)
             annualRent ==
                 Mul(in.monthlyRent, Num(12))
             rentalYield ==
                 IF Gt(in.afterRefurbValue, Num(0))
                 THEN Mul(Div(annualRent, in.afterRefurbValue), Num(100)) ELSE Num(0)
             annualMortgageInterest ==
                 Mul(refinanceAmount, Div(in.mortgageRate, Num(100)))
             totalAnnualExpenses ==
                 Add(Add(Add(annualMortgageInterest, in.councilTax), in.repairs), in.insurance)
             annualProfit ==
                 Sub(annualRent, totalAnnualExpenses)
             monthlyProfit ==
                 Div(annualProfit, Num(12))
             roi ==
                 IF Gt(netInvestment, Num(0))
                 THEN Mul(Div(annualProfit, netInvestment), Num(100)) ELSE Num(0)
         IN in @@
            [depositAmount |-> depositAmount, initialMortgage |-> initialMortgage,
             totalInitialInvestment |-> totalInitialInvestment,
             refinanceAmount |-> refinanceAmount, moneyBack |-> moneyBack,
             netInvestment |-> netInvestment, annualRent |-> annualRent,
             rentalYield |-> rentalYield,
             annualMortgageInterest |-> annualMortgageInterest,
             totalAnnualExpenses |-> totalAnnualExpenses, annualProfit |-> annualProfit,
             monthlyProfit |-> monthlyProfit, roi |-> roi] :
            in \in {BRRInputs(d)}} : TRUE

\* Mutation: the money back is the initial mortgage less the refinance.
calculateBRRMoneyBack(d) ==
    LET locals == BRRLocals(d)
    IN [Pick(locals,
             {"purchasePrice", "refurbCost", "afterRefurbValue", "depositAmount",
              "totalInitialInvestment", "refinanceAmount", "moneyBack", "netInvestment",
              "annualRent", "monthlyRent", "rentalYield", "totalAnnualExpenses", "annualProfit",
              "monthlyProfit", "roi"})
        EXCEPT !.moneyBack = Sub(locals.initialMortgage, locals.refinanceAmount)]

\* calculateBRR, lines 93-109
calculateBRR(d) ==
    Pick(BRRLocals(d),
         {"purchasePrice", "refurbCost", "afterRefurbValue", "depositAmount",
          "totalInitialInvestment", "refinanceAmount", "moneyBack", "netInvestment", "annualRent",
          "monthlyRent", "rentalYield", "totalAnnualExpenses", "annualProfit", "monthlyProfit",
          "roi"})

\* calculateFlip: the fields of the request as the body parses them.
FlipInputs(d) ==
    [purchasePrice |-> parseCurrency(d.purchase_price),
     refurbCost |-> parseCurrency(d.refurb_cost),
     salePrice |-> parseCurrency(d.sale_price),
     holdingPeriod |-> PercentOr(d.holding_period, Num(6)),
     stampDuty |-> parseCurrency(d.stamp_duty),
     surveyCost |-> parseCurrency(d.survey_cost),
     legalFeesPurchase |-> parseCurrency(d.legal_fees),
     legalFeesSale |-> parseCurrency(d.legal_fees_sale),
     estateAgentFees |-> parseCurrency(d.estate_agent_fees),
     financeCost |-> parseCurrency(d.finance_cost)]

\* calculateFlip, lines 114-133
FlipLocals(d) ==
    CHOOSE locals \in
        {LET totalPurchaseCosts ==
                 Add(Add(in.stampDuty, in.surveyCost), in.legalFeesPurchase)
             totalSaleCosts ==
                 Add(in.legalFeesSale, in.estateAgentFees)
             totalInvestment ==
                 Add(Add(Add(in.purchasePrice, in.refurbCost), totalPurchaseCosts), in.financeCost)
             grossProfit ==
                 Sub(Sub(in.salePrice, totalInvestment), totalSaleCosts)
             netProfit ==
                 grossProfit
             roi ==
                 IF Gt(totalInvestment, Num(0))
                 THEN Mul(Div(netProfit, totalInvestment), Num(100)) ELSE Num(0)
             monthlyROI ==
                 IF Gt(in.holdingPeriod, Num(0)) THEN Div(roi, in.holdingPeriod) ELSE Num(0)
         IN in @@
            [totalPurchaseCosts |-> totalPurchaseCosts, totalSaleCosts |-> totalSaleCosts,
             totalInvestment |-> totalInvestment, grossProfit |-> grossProfit,
             netProfit |-> netProfit, roi |-> roi, monthlyROI |-> monthlyROI] :
            in \in {FlipInputs(d)}} : TRUE

\* Mutation: the costs of the sale are not taken off the gross profit.
calculateFlipNoSaleCosts(d) ==
    LET locals == FlipLocals(d)
    IN [Pick(locals,
             {"purchasePrice", "refurbCost", "salePrice", "totalInvestment", "grossProfit",
              "netProfit", "roi", "monthlyROI", "holdingPeriod"})
        EXCEPT !.grossProfit = Sub(locals.salePrice, locals.totalInvestment)]

\* calculateFlip, lines 135-145
calculateFlip(d) ==
    Pick(FlipLocals(d),
         {"purchasePrice", "refurbCost", "salePrice", "totalInvestment", "grossProfit",
          "netProfit", "roi", "monthlyROI", "holdingPeriod"})

\* calculateHolidayLet: the fields of the request as the body parses them.
HolidayLetInputs(d) ==
    [purchasePrice |-> parseCurrency(d.purchase_price),
     depositPercent |-> PercentOr(d.deposit_percent, Num(20)),
     mortgageRate |-> PercentOr(d.mortgage_rate, Fin(58, 10)),
     weeklyRent |-> parseCurrency(d.weekly_rent),
     occupancyRate |-> PercentOr(d.occupancy_rate, Num(50)),
     managementFeePercent |-> PercentOr(d.management_fee, Num(20)),
     cleaningFee |-> parseCurrency(d.cleaning_fee),
     councilTax |-> parseCurrency(d.council_tax), utilities |-> parseCurrency(d.utilities),
     insurance |-> parseCurrency(d.insurance)]

\* calculateHolidayLet, lines 150-178
HolidayLetLocals(d) ==
    CHOOSE locals \in
        {LET depositAmount ==
                 Mul(in.purchasePrice, Div(in.depositPercent, Num(100)))
             mortgageAmount ==
                 Sub(in.purchasePrice, depositAmount)
             weeksPerYear ==
                 Num(52)
             occupiedWeeks ==
                 Mul(weeksPerYear, Div(in.occupancyRate, Num(100)))
             annualRent ==
                 Mul(in.weeklyRent, occupiedWeeks)
             managementFee ==
                 Mul(annualRent, Div(in.managementFeePercent, Num(100)))
             totalCleaningFees ==
                 Mul(in.cleaningFee, occupiedWeeks)
             annualMortgageInterest ==
                 Mul(mortgageAmount, Div(in.mortgageRate, Num(100)))
             totalAnnualExpenses ==
                 Add(Add(Add(Add(Add(annualMortgageInterest, managementFee),
                 totalCleaningFees), in.councilTax), in.utilities), in.insurance)
             annualProfit ==
                 Sub(annualRent, totalAnnualExpenses)
             monthlyProfit ==
                 Div(annualProfit, Num(12))
             rentalYield ==
                 IF Gt(in.purchasePrice, Num(0))
                 THEN Mul(Div(annualRent, in.purchasePrice), Num(100)) ELSE Num(0)
             totalInvestment ==
                 depositAmount
             roi ==
                 IF Gt(totalInvestment, Num(0))
                 THEN Mul(Div(annualProfit, totalInvestment), Num(100)) ELSE Num(0)
         IN in @@
            [depositAmount |-> depositAmount, mortgageAmount |-> mortgageAmount,
             occupiedWeeks |-> occupiedWeeks, annualRent |-> annualRent,
             managementFee |-> managementFee, totalCleaningFees |-> totalCleaningFees,
             annualMortgageInterest |-> annualMortgageInterest,
             totalAnnualExpenses |-> totalAnnualExpenses, annualProfit |-> annualProfit,
             monthlyProfit |-> monthlyProfit, rentalYield |-> rentalYield,
             totalInvestment |-> totalInvestment, roi |-> roi] :
            in \in {HolidayLetInputs(d)}} : TRUE

\* calculateHolidayLet, lines 180-193
calculateHolidayLet(d) ==
    Pick(HolidayLetLocals(d),
         {"purchasePrice", "depositAmount", "mortgageAmount", "annualRent", "weeklyRent",
          "occupancyRate", "occupiedWeeks", "totalAnnualExpenses", "annualProfit",
          "monthlyProfit", "rentalYield", "roi"})

\* calculateRentToHMO: the fields of the request as the body parses them.
RentToHMOInputs(d) ==
    [monthlyRentPaid |-> parseCurrency(d.monthly_rent_paid),
     numberOfRooms |-> PercentOr(d.number_of_rooms, Num(1)),
     rentPerRoom |-> parseCurrency(d.rent_per_room),
     occupancyRate |-> PercentOr(d.occupancy_rate, Num(80)),
     councilTax |-> parseCurrency(d.council_tax), utilities |-> parseCurrency(d.utilities),
     insurance |-> parseCurrency(d.insurance),
     managementFee |-> parseCurrency(d.management_fee)]

\* calculateRentToHMO, lines 198-216
RentToHMOLocals(d) ==
    CHOOSE locals \in
        {LET annualRentPaid ==
                 Mul(in.monthlyRentPaid, Num(12))
             occupiedRooms ==
                 Floor(Mul(in.numberOfRooms, Div(in.occupancyRate, Num(100))))
             monthlyIncome ==
                 Mul(in.rentPerRoom, occupiedRooms)
             annualIncome ==
                 Mul(monthlyIncome, Num(12))
             totalAnnualExpenses ==
                 Add(Add(Add(Add(annualRentPaid, in.councilTax), in.utilities),
                 in.insurance), in.managementFee)
             annualProfit ==
                 Sub(annualIncome, totalAnnualExpenses)
             monthlyProfit ==
                 Div(annualProfit, Num(12))
             roi ==
                 IF Gt(annualRentPaid, Num(0))
                 THEN Mul(Div(annualProfit, annualRentPaid), Num(100)) ELSE Num(0)
         IN in @@
            [annualRentPaid |-> annualRentPaid, occupiedRooms |-> occupiedRooms,
             monthlyIncome |-> monthlyIncome, annualIncome |-> annualIncome,
             totalAnnualExpenses |-> totalAnnualExpenses, annualProfit |-> annualProfit,
             monthlyProfit |-> monthlyProfit, roi |-> roi] :
            in \in {RentToHMOInputs(d)}} : TRUE

\* calculateRentToHMO, lines 218-230
calculateRentToHMO(d) ==
    Pick(RentToHMOLocals(d),
         {"monthlyRentPaid", "annualRentPaid", "numberOfRooms", "rentPerRoom", "occupiedRooms",
          "monthlyIncome", "annualIncome", "totalAnnualExpenses", "annualProfit",
          "monthlyProfit", "roi"})

\* calculateRentToServiced: the fields of the request as the body parses them.
RentToServicedInputs(d) ==
    [monthlyRentPaid |-> parseCurrency(d.monthly_rent_paid),
     dailyRate |-> parseCurrency(d.daily_rate),
     occupancyRate |-> PercentOr(d.occupancy_rate, Num(60)),
     cleaningFee |-> parseCurrency(d.cleaning_fee),
     managementFeePercent |-> PercentOr(d.management_fee, Num(20)),
     councilTax |-> parseCurrency(d.council_tax), utilities |-> parseCurrency(d.utilities),
     insurance |-> parseCurrency(d.insurance)]

\* calculateRentToServiced, lines 235-255
RentToServicedLocals(d) ==
    CHOOSE locals \in
        {LET annualRentPaid ==
                 Mul(in.monthlyRentPaid, Num(12))
             daysPerYear ==
                 Num(365)
             occupiedDays ==
                 Mul(daysPerYear, Div(in.occupancyRate, Num(100)))
             annualIncome ==
                 Mul(in.dailyRate, occupiedDays)
             managementFee ==
                 Mul(annualIncome, Div(in.managementFeePercent, Num(100)))
             totalCleaningFees ==
                 Mul(in.cleaningFee, occupiedDays)
             totalAnnualExpenses ==
                 Add(Add(Add(Add(Add(annualRentPaid, managementFee),
                 totalCleaningFees), in.councilTax), in.utilities), in.insurance)
             annualProfit ==
                 Sub(annualIncome, totalAnnualExpenses)
             monthlyProfit ==
                 Div(annualProfit, Num(12))
             roi ==
                 IF Gt(annualRentPaid, Num(0))
                 THEN Mul(Div(annualProfit, annualRentPaid), Num(100)) ELSE Num(0)
         IN in @@
            [annualRentPaid |-> annualRentPaid, occupiedDays |-> occupiedDays,
             annualIncome |-> annualIncome, managementFee |-> managementFee,
             totalCleaningFees |-> totalCleaningFees,
             totalAnnualExpenses |-> totalAnnualExpenses, annualProfit |-> annualProfit,
             monthlyProfit |-> monthlyProfit, roi |-> roi] :
            in \in {RentToServicedInputs(d)}} : TRUE

\* calculateRentToServiced, lines 257-268
calculateRentToServiced(d) ==
    Pick(RentToServicedLocals(d),
         {"monthlyRentPaid", "annualRentPaid", "dailyRate", "occupancyRate", "occupiedDays",
          "annualIncome", "totalAnnualExpenses", "annualProfit", "monthlyProfit", "roi"})

\* Line 273: data.calculator_type || 'standard-btl'
CalculatorTypeOf(d) ==
    IF d.calculator_type \in {Undefined, ""} THEN "standard-btl" ELSE d.calculator_type

\* Mutation: the default branch raises instead of falling back.
calculateInvestmentStrict(d) ==
    LET calculatorType == CalculatorTypeOf(d)
    IN CASE calculatorType \in {"standard-btl", "purchase"} -> calculateStandardBTL(d)
         [] calculatorType = "brr" -> calculateBRR(d)
         [] calculatorType = "flip" -> calculateFlip(d)
         [] calculatorType = "holiday-let" -> calculateHolidayLet(d)
         [] calculatorType = "rent-to-hmo" -> calculateRentToHMO(d)
         [] calculatorType = "rent-to-serviced" -> calculateRentToServiced(d)
         [] OTHER -> [error |-> "Unknown calculator type"]

\* calculateInvestment, lines 272-292
calculateInvestment(d) ==
    LET calculatorType == CalculatorTypeOf(d)
    IN CASE calculatorType \in {"standard-btl", "purchase"} -> calculateStandardBTL(d)
         [] calculatorType = "brr" -> calculateBRR(d)
         [] calculatorType = "flip" -> calculateFlip(d)
         [] calculatorType = "holiday-let" -> calculateHolidayLet(d)
         [] calculatorType = "rent-to-hmo" -> calculateRentToHMO(d)
         [] calculatorType = "rent-to-serviced" -> calculateRentToServiced(d)
         [] OTHER -> calculateStandardBTL(d)

\* ------------------------------------------------------ calculator inputs
\* The fields read through parseCurrency and through parseFloat(...) || default.
CurrencyFields ==
    {"purchase_price", "monthly_rent", "stamp_duty", "survey_cost", "legal_fees", "loan_setup",
     "council_tax", "repairs_maintenance", "utilities", "water", "broadband_tv", "insurance",
     "refurb_cost", "after_refurb_value", "sale_price", "legal_fees_sale", "estate_agent_fees",
     "finance_cost", "weekly_rent", "cleaning_fee", "monthly_rent_paid", "rent_per_room",
     "daily_rate"}

PercentFields ==
    {"deposit_percent", "mortgage_rate", "refinance_ltv", "holding_period", "occupancy_rate",
     "management_fee", "number_of_rooms"}

Fields == CurrencyFields \cup PercentFields

\* The values a field is given: absent, null, "", "abc", "Infinity", 0, "0",
\* 25, "£1,200", "-500" and "7.5%".
RawValues ==
    {VUndefined, VNull, VString(<<>>), VString(<<"a", "b", "c">>), VString(InfinityChars),
     VNumber(Num(0)), VString(<<"0">>), VNumber(Num(25)),
     VString(<<"£", "1", ",", "2", "0", "0">>), VString(<<"-", "5", "0", "0">>),
     VString(<<"7", ".", "5", "%">>)}

\* The values of data.calculator_type: absent, empty, the seven listed ones
\* and two that no case of the switch lists.
TypeInputs ==
    {Undefined, "", "standard-btl", "purchase", "brr", "flip", "holiday-let", "rent-to-hmo",
     "rent-to-serviced", "commercial", "BRR"}

\* {}
EmptyInput == [f \in Fields \cup {"calculator_type"} |->
                  IF f = "calculator_type" THEN Undefined ELSE VUndefined]

\* The standard buy-to-let example: "£200,000" at 25% deposit, "£1,200" a month at 5%.
BTLExample ==
    [EmptyInput EXCEPT
        !.purchase_price = VString(<<"£", "2", "0", "0", ",", "0", "0", "0">>),
        !.deposit_percent = VNumber(Num(25)),
        !.monthly_rent = VString(<<"£", "1", ",", "2", "0", "0">>),
        !.mortgage_rate = VNumber(Num(5)),
        !.council_tax = VNumber(Num(150)),
        !.repairs_maintenance = VNumber(Num(50)),
        !.utilities = VNumber(Num(40)),
        !.water = VNumber(Num(20)),
        !.broadband_tv = VNumber(Num(30)),
        !.insurance = VNumber(Num(25))]

\* The flip example: bought at 100000, refurbished for 20000, sold at 180000 after 6 months.
FlipExample ==
    [EmptyInput EXCEPT
        !.purchase_price = VNumber(Num(100000)),
        !.refurb_cost = VNumber(Num(20000)),
        !.sale_price = VNumber(Num(180000)),
        !.stamp_duty = VNumber(Num(3000)),
        !.survey_cost = VNumber(Num(500)),
        !.legal_fees = VNumber(Num(1000)),
        !.legal_fees_sale = VNumber(Num(1000)),
        !.estate_agent_fees = VNumber(Num(3000)),
        !.finance_cost = VNumber(Num(2000)),
        !.holding_period = VNumber(Num(6))]

\* An input that gives every field of every calculator a value.
FullExample ==
    [BTLExample EXCEPT
        !.stamp_duty = VNumber(Num(3000)),
        !.survey_cost = VNumber(Num(500)),
        !.legal_fees = VNumber(Num(1000)),
        !.loan_setup = VNumber(Num(500)),
        !.refurb_cost = VNumber(Num(20000)),
        !.after_refurb_value = VString(<<"2", "6", "0", "0", "0", "0">>),
        !.refinance_ltv = VNumber(Num(70)),
        !.sale_price = VNumber(Num(280000)),
        !.legal_fees_sale = VNumber(Num(1000)),
        !.estate_agent_fees = VNumber(Num(3000)),
        !.finance_cost = VNumber(Num(2000)),
        !.holding_period = VNumber(Num(8)),
        !.weekly_rent = VNumber(Num(800)),
        !.occupancy_rate = VNumber(Num(70)),
        !.management_fee = VNumber(Num(15)),
        !.cleaning_fee = VNumber(Num(60)),
        !.monthly_rent_paid = VNumber(Num(1500)),
        !.number_of_rooms = VNumber(Num(5)),
        !.rent_per_room = VNumber(Num(600)),
        !.daily_rate = VNumber(Num(120))]

BaseInputs == {EmptyInput, BTLExample, FlipExample, FullExample}

\* Before calculateInvestment returns there is no result mapping.
NoResult == [pending |-> TRUE]

\* No calculator is being run.
CalcIdle ==
    /\ calcInput = EmptyInput
    /\ calcResult = NoResult
    /\ calcPc = "idle"

\* ---------------------------------------------- formatting and parsing back
\* parseCurrency of pdf-generator.js, lines 47-50
pdfParseCurrency(value) ==
    IF ~ValueTruthy(value) THEN Num(0)
    ELSE OrElse(parseFloatOfString(StripCurrency(StringOf(value))), Num(0))

\* The digits of a whole number in groups of three, from the right.
RECURSIVE GroupDigits(_, _)
GroupDigits(digits, separator) ==
    IF Len(digits) <= 3 THEN digits
    ELSE GroupDigits(SubSeq(digits, 1, Len(digits) - 3), separator)
         \o <<separator>> \o SubSeq(digits, Len(digits) - 2, Len(digits))

\* The default locales a host can give the process, and what each groups
\* digits with: a comma, a full stop, a narrow no-break space.
Locales == {"en-GB", "en-US", "de-DE", "fr-FR"}

GroupSeparator(locale) ==
    CASE locale = "de-DE" -> "."
      [] locale = "fr-FR" -> "nnbsp"
      [] OTHER -> ","

\* Number.prototype.toLocaleString of a whole number
WholeToLocaleString(x, locale) ==
    (IF x.n < 0 THEN <<"-">> ELSE <<>>)
    \o GroupDigits(NatToString(Abs(x.n)), GroupSeparator(locale))

\* toLocaleString with maximumFractionDigits 0 rounds half-way cases away from zero.
RoundHalfExpand(x) ==
    IF x.n < 0 THEN Neg(Floor(Add(Neg(x), Fin(1, 2)))) ELSE Floor(Add(x, Fin(1, 2)))

\* formatCurrency of calculator-logic.js, lines 9-11: the locale is 'en-GB'
formatCurrency(value) == <<"£">> \o WholeToLocaleString(RoundHalfExpand(value), "en-GB")

\* formatCurrency of pdf-generator.js, lines 53-55: the locale is the host's default
pdfFormatCurrency(value, locale) == <<"£">> \o WholeToLocaleString(Round(value), locale)

\* The two files that define the pair.
Impls == {"calculator-logic.js", "pdf-generator.js"}

\* The amounts formatted: 0, 0.4, 0.5, 2.5, 7, 999, 999.5, 1000, 1234, 1234.5,
\* 12345.49, 200000 and 1234567.
Amounts ==
    {Num(0), Fin(2, 5), Fin(1, 2), Fin(5, 2), Num(7), Num(999), Fin(1999, 2), Num(1000),
     Num(1234), Fin(2469, 2), Fin(1234549, 100), Num(200000), Num(1234567)}

\* The values parsed: absent, null, "", "  ", "abc", "£", "(500)", 0, "0",
\* "£1,200", "£200,000", "1 200.50", 150, 5.8, "-500", "12abc", "1.2.3" and
\* "Infinity".
ParseInputs ==
    {VUndefined, VNull, VString(<<>>), VString(<<" ", " ">>), VString(<<"a", "b", "c">>),
     VString(<<"£">>), VString(<<"(", "5", "0", "0", ")">>), VNumber(Num(0)), VString(<<"0">>),
     VString(<<"£", "1", ",", "2", "0", "0">>),
     VString(<<"£", "2", "0", "0", ",", "0", "0", "0">>),
     VString(<<"1", " ", "2", "0", "0", ".", "5", "0">>), VNumber(Num(150)),
     VNumber(Fin(58, 10)), VString(<<"-", "5", "0", "0">>),
     VString(<<"1", "2", "a", "b", "c">>), VString(<<"1", ".", "2", ".", "3">>),
     VString(InfinityChars)}

\* Neither function is being run.
CurrencyIdle ==
    /\ curImpl = "calculator-logic.js"
    /\ curLocale = "en-GB"
    /\ curX = Num(0)
    /\ curValue = VUndefined
    /\ curParsed = Num(0)
    /\ curPc = "idle"

\* ------------------------------------------------------- createEPCChart
A4_WIDTH == 59528

\* Lines 940-941: the chart is centred on the page.
chartX == (A4_WIDTH - (58 * INCH) \div 10) \div 2

epcChartWidth == (46 * INCH) \div 10

barHeight == (18 * INCH) \div 100

barSpacing == (9 * INCH) \div 100

\* Lines 759-767, in the order of the array
epcBands ==
    <<[grade |-> "A", min |-> 92, max |-> 100],
      [grade |-> "B", min |-> 81, max |-> 91],
      [grade |-> "C", min |-> 69, max |-> 80],
      [grade |-> "D", min |-> 55, max |-> 68],
      [grade |-> "E", min |-> 39, max |-> 54],
      [grade |-> "F", min |-> 21, max |-> 38],
      [grade |-> "G", min |-> 1, max |-> 20]>>

\* parseInt(value): the whole number a string starts with, NaN when it starts with none
parseInt(value) ==
    LET s == TrimStart(StringOf(value))
        signed == s # <<>> /\ s[1] \in {"-", "+"}
        i == IF signed THEN 2 ELSE 1
        ni == DigitRun(s, i)
    IN IF ni = 0 THEN NaN
       ELSE IF s[1] = "-" THEN Num(-DigitsValue(s, i, ni)) ELSE Num(DigitsValue(s, i, ni))

\* Lines 829 and 831: parseInt(data.current_rating || data.epc_rating || '84'), 84 when NaN
currentScoreOf(d) ==
    LET raw == IF ValueTruthy(d.current_rating) THEN d.current_rating
               ELSE IF ValueTruthy(d.epc_rating) THEN d.epc_rating
               ELSE VString(<<"8", "4">>)
    IN IF parseInt(raw).k = "nan" THEN 84 ELSE parseInt(raw).n

\* Lines 830 and 832: parseInt(data.potential_rating || '72'), 72 when NaN
potentialScoreOf(d) ==
    LET raw == IF ValueTruthy(d.potential_rating) THEN d.potential_rating
               ELSE VString(<<"7", "2">>)
    IN IF parseInt(raw).k = "nan" THEN 72 ELSE parseInt(raw).n

\* The positions of the array whose band holds the score.
BandsHolding(score) ==
    {i \in DOMAIN epcBands : score >= epcBands[i].min /\ score <= epcBands[i].max}

\* The first of a non-empty set of positions.
First(S) == CHOOSE i \in S : \A j \in S : i <= j

\* Lines 834-842; positions count from 0 in the source, from 1 here.
bandCenterY(score, startY) ==
    IF BandsHolding(score) # {}
    THEN startY + (First(BandsHolding(score)) - 1) * (barHeight + barSpacing) + barHeight \div 2
    ELSE startY + (Len(epcBands) - 1) * (barHeight + barSpacing) + barHeight \div 2

\* Mutation: a score no band holds is lettered A.
letterForDefaultA(score) ==
    IF BandsHolding(score) # {} THEN epcBands[First(BandsHolding(score))].grade ELSE "A"

\* Lines 866-871
letterFor(score) ==
    IF BandsHolding(score) # {} THEN epcBands[First(BandsHolding(score))].grade ELSE "G"

\* Lines 845-864: the badge drawn, its text being `${value} | ${letter}`.
drawValueBadge(xLeft, yCenter, value, letter) ==
    [xLeft |-> xLeft, yCenter |-> yCenter, value |-> value, letter |-> letter]

\* Lines 799-826: the bar of the band at position i, and where its letter is drawn.
EpcBar(i, x, startY) ==
    LET startX == x - (15 * INCH) \div 100
        currentColX == startX + epcChartWidth + (20 * INCH) \div 100
        yPos == startY + (i - 1) * (barHeight + barSpacing)
        proportion == Fin(i, Len(epcBands))
        letterPadding == (8 * INCH) \div 100
        maxLetterX == currentColX - (32 * INCH) \div 100
        maxBarWidthForLetter == IF (maxLetterX - startX) - letterPadding > 0
                                THEN (maxLetterX - startX) - letterPadding ELSE 0
        width == IF Gt(Mul(Num(epcChartWidth), proportion), Num(maxBarWidthForLetter))
                 THEN Num(maxBarWidthForLetter) ELSE Mul(Num(epcChartWidth), proportion)
        barEndX == Add(Num(startX), width)
        letterX == IF Gt(Add(barEndX, Num(letterPadding)), Num(maxLetterX))
                   THEN Num(maxLetterX) ELSE Add(barEndX, Num(letterPadding))
    IN [grade |-> epcBands[i].grade, x |-> startX, yPos |-> yPos, width |-> width,
        letterX |-> letterX, maxLetterX |-> maxLetterX]

\* The ratings given: absent, "", "abc", "84", "84.7", " 20", "0", "101",
\* "Infinity", and every number from -2 to MaxScore.
Ratings ==
    {VUndefined, VString(<<>>), VString(<<"a", "b", "c">>), VString(<<"8", "4">>),
     VString(<<"8", "4", ".", "7">>), VString(<<" ", "2", "0">>), VString(<<"0">>),
     VString(<<"1", "0", "1">>), VString(InfinityChars)}
    \cup {VNumber(Num(k)) : k \in (-2)..MaxScore}

\* data.epc_rating: absent or 50
EpcRatings == {VUndefined, VNumber(Num(50))}

\* currentY at line 942 depends on the height of the text above the chart.
ChartYs == {30000, 45000}

\* No chart is being drawn.
EpcIdle ==
    /\ epcData = [current_rating |-> VUndefined, epc_rating |-> VUndefined,
                  potential_rating |-> VUndefined]
    /\ epcY = 0
    /\ epcBars = <<>>
    /\ epcBadges = <<>>
    /\ epcPc = "idle"

\* ------------------------------ calculateCalculatorValues, renderCalculatorSection
\* a || b on the values of two fields
ValueOr(a, b) == IF ValueTruthy(a) THEN a ELSE b

\* Lines 244-245: { ...allData, ...calcData } with calculator_type set to the
\* type being rendered.  A field the sub-mapping does not have is VUndefined
\* in calcData (JSON carries no undefined).
dataForCalcOf(calculatorType, calcData, allData) ==
    [f \in Fields \cup {"calculator_type"} |->
        IF f = "calculator_type" THEN calculatorType
        ELSE IF calcData[f] # VUndefined THEN calcData[f] ELSE allData[f]]

\* calcResults.a || calcResults.b || fallback: a key the result mapping does
\* not have reads as undefined.
ResultOr(r, keys, fallback) ==
    CHOOSE v \in
        {LET truthy == {i \in DOMAIN keys : keys[i] \in DOMAIN x /\ NumTruthy(x[keys[i]])}
         IN IF truthy = {} THEN fallback ELSE x[keys[First(truthy)]] : x \in {r}} : TRUE

\* calculateCalculatorValues, lines 243-289.  calculateInvestment is the
\* function of calculator-logic.js (lines 6-10) and throws for no value a
\* JSON body can carry, so the body ends at the return of line 286.
calculateCalculatorValues(calculatorType, calcData, allData) ==
    CHOOSE values \in
        {[purchasePrice |-> ResultOr(r, <<"purchasePrice">>, Num(0)),
          depositAmount |-> ResultOr(r, <<"depositAmount">>, Num(0)),
          mortgageAmount |-> ResultOr(r, <<"mortgageAmount">>, Num(0)),
          totalInvestment |-> ResultOr(r, <<"totalInvestment", "netInvestment">>, Num(0)),
          annualRent |-> ResultOr(r, <<"annualRent", "annualIncome">>, Num(0)),
          monthlyRent |-> ResultOr(r, <<"monthlyRent", "monthlyIncome">>, Num(0)),
          rentalYield |-> ResultOr(r, <<"rentalYield">>, Num(0)),
          totalAnnualExpenses |-> ResultOr(r, <<"totalAnnualExpenses">>, Num(0)),
          annualProfit |-> ResultOr(r, <<"annualProfit", "netProfit">>, Num(0)),
          monthlyProfit |-> ResultOr(r, <<"monthlyProfit">>, Num(0)),
          roi |-> ResultOr(r, <<"roi">>, Num(0)),
          depositPercent |->
              OrElse(parseFloat(ValueOr(calcData.deposit_percent, allData.deposit_percent)),
                     Num(20)),
          mortgageRate |->
              OrElse(parseFloat(ValueOr(calcData.mortgage_rate, allData.mortgage_rate)),
                     Fin(58, 10)),
          stampDuty |->
              ResultOr(r, <<"stampDuty">>,
                       pdfParseCurrency(ValueOr(calcData.stamp_duty, allData.stamp_duty))),
          surveyCost |->
              ResultOr(r, <<"surveyCost">>,
                       pdfParseCurrency(ValueOr(calcData.survey_cost, allData.survey_cost))),
          legalFees |->
              ResultOr(r, <<"legalFees">>,
                       pdfParseCurrency(ValueOr(calcData.legal_fees, allData.legal_fees))),
          loanSetup |->
              ResultOr(r, <<"loanSetup">>,
                       pdfParseCurrency(ValueOr(calcData.loan_setup, allData.loan_setup))),
          annualMortgageInterest |-> ResultOr(r, <<"annualMortgageInterest">>, Num(0)),
          councilTax |->
              ResultOr(r, <<"councilTax">>,
                       pdfParseCurrency(ValueOr(calcData.council_tax, allData.council_tax))),
          repairs |->
              ResultOr(r, <<"repairs">>,
                       pdfParseCurrency(ValueOr(calcData.repairs_maintenance,
                                                allData.repairs_maintenance))),
          utilities |->
              ResultOr(r, <<"utilities">>,
                       pdfParseCurrency(ValueOr(calcData.utilities, allData.utilities))),
          water |->
              ResultOr(r, <<"water">>,
                       pdfParseCurrency(ValueOr(calcData.water, allData.water))),
          broadband |->
              ResultOr(r, <<"broadband">>,
                       pdfParseCurrency(ValueOr(calcData.broadband_tv, allData.broadband_tv))),
          insurance |->
              ResultOr(r, <<"insurance">>,
                       pdfParseCurrency(ValueOr(calcData.insurance, allData.insurance)))] :
            r \in {calculateInvestment(dataForCalcOf(calculatorType, calcData, allData))}} : TRUE

\* formatCurrency of pdf-generator.js, line 54: the amount written is
\* Math.round(value), its digits then grouped as the host's locale groups them.
ShownAmount(value) == Round(value)

\* Number.prototype.toFixed(1)
ToFixed1(value) == Div(RoundHalfExpand(Mul(value, Num(10))), Num(10))

\* renderCalculatorSection, lines 338-599: the figures written, in the order
\* of the rows (the last cost row and the last expense row are the bold totals).
renderCalculatorSection(calculatorType, values) ==
    CHOOSE rows \in
        {[metrics |-> <<ShownAmount(v.purchasePrice), ShownAmount(v.monthlyRent),
                        ToFixed1(v.rentalYield)>>,
          depositLabel |-> v.depositPercent,
          costs |-> <<ShownAmount(v.depositAmount), ShownAmount(v.stampDuty),
                      ShownAmount(v.surveyCost), ShownAmount(v.legalFees),
                      ShownAmount(v.loanSetup), ShownAmount(v.totalInvestment)>>,
          mortgageLabel |-> v.mortgageRate,
          expenses |-> <<ShownAmount(v.annualMortgageInterest), ShownAmount(v.councilTax),
                         ShownAmount(v.repairs), ShownAmount(v.utilities),
                         ShownAmount(v.water), ShownAmount(v.broadband),
                         ShownAmount(v.insurance), ShownAmount(v.totalAnnualExpenses)>>,
          monthlyProfit |-> ShownAmount(v.monthlyProfit),
          annualProfit |-> ShownAmount(v.annualProfit),
          roi |-> ToFixed1(v.roi)] : v \in {values}} : TRUE

\* The types a section is rendered for.
SectionTypes ==
    {"standard-btl", "purchase", "brr", "flip", "holiday-let", "rent-to-hmo", "rent-to-serviced"}

\* A calculator_<type> sub-mapping with no field.
EmptyCalcData == [f \in Fields |-> VUndefined]

\* No section is being computed.
SectionIdle ==
    /\ secType = "standard-btl"
    /\ secCalcData = EmptyCalcData
    /\ secAllData = EmptyInput
    /\ secInput = EmptyInput
    /\ secValues = NoResult
    /\ secRows = NoResult
    /\ secPc = "idle"

\* ------------------------------------------------ addImageToPDF on a disk
\* The image paths of a request, and the bundled sample map the city page
\* falls back to.
ImagePaths == {"a.jpg", "b.jpg"}

SamplePaths == {"sample_images/directions.png"}

\* What a path leads to: no file, a file doc.image cannot read, or an image.
FileStates == {"missing", "unreadable", "valid"}

\* fs.existsSync(path): false for null and for a path with no file
existsSync(disk, path) == path # "null" /\ disk[path] # "missing"

\* The box of a drawing call.
Box(x, y, width, height) == [x |-> x, y |-> y, width |-> width, height |-> height]

\* doc.rect(x, y, maxWidth, maxHeight).fillColor('#CCCCCC').fill()
Placeholder(x, y, maxWidth, maxHeight) ==
    [op |-> "placeholder", path |-> "null", box |-> Box(x, y, maxWidth, maxHeight),
     fit |-> "none"]

\* Mutation: an image that cannot be read lets its error escape.
addImageToPDFThrowing(disk, imagePath, x, y, maxWidth, maxHeight, fit) ==
    IF ~existsSync(disk, imagePath)
    THEN [drawn |-> <<Placeholder(x, y, maxWidth, maxHeight)>>, unrestored |-> 0,
          thrown |-> FALSE]
    ELSE IF disk[imagePath] = "unreadable"
    THEN [drawn |-> <<>>, unrestored |-> 1, thrown |-> TRUE]
    ELSE [drawn |-> <<[op |-> "image", path |-> imagePath,
                       box |-> Box(x, y, maxWidth, maxHeight), fit |-> fit]>>,
          unrestored |-> 0, thrown |-> FALSE]

\* addImageToPDF, lines 73-107: what is drawn, how many doc.save() calls are
\* left without their doc.restore(), and whether an error escapes.  Line 75
\* draws the placeholder for a null path and for a path with no file; when
\* doc.image throws (line 99) the catch of lines 101-106 draws it, after the
\* save and the clip of lines 97-98 and without the restore of line 100.
addImageToPDFOn(disk, imagePath, x, y, maxWidth, maxHeight, fit) ==
    IF ~existsSync(disk, imagePath)
    THEN [drawn |-> <<Placeholder(x, y, maxWidth, maxHeight)>>, unrestored |-> 0,
          thrown |-> FALSE]
    ELSE IF disk[imagePath] = "unreadable"
    THEN [drawn |-> <<Placeholder(x, y, maxWidth, maxHeight)>>, unrestored |-> 1,
          thrown |-> FALSE]
    ELSE [drawn |-> <<[op |-> "image", path |-> imagePath,
                       box |-> Box(x, y, maxWidth, maxHeight), fit |-> fit]>>,
          unrestored |-> 0, thrown |-> FALSE]

\* A document under construction: its pages, the cursor of the section being
\* laid out, the doc.save() calls not yet restored, and whether an error has
\* escaped the drawing code.
ImageDoc(docPages, y, unrestored, thrown) ==
    [pages |-> docPages, y |-> y, unrestored |-> unrestored, thrown |-> thrown]

\* One image slot: addImageToPDF at the cursor, which the caller then moves
\* down by `advance`.  An escaped error ends the layout.
ImageSlot(doc, disk, imagePath, x, maxWidth, maxHeight, fit, advance) ==
    CHOOSE next \in
        {ImageDoc(DrawAll(d.pages, r.drawn), IF r.thrown THEN d.y ELSE d.y + advance,
                  d.unrestored + r.unrestored, r.thrown) :
            d \in {doc},
            r \in {addImageToPDFOn(disk, imagePath, x, doc.y, maxWidth, maxHeight, fit)}} : TRUE

galleryWidth == (54 * INCH) \div 10

galleryX == MARGIN + ((A4_WIDTH - 2 * MARGIN) - galleryWidth) \div 2

\* Lines 1267-1284: the header and title of the gallery's first page.
GalleryHead(doc, titleHeight) ==
    ImageDoc(Draw(drawHeader(doc.pages, "gallery"),
                  Op("title", "gallery", "Property Images", contentY)),
             contentY + titleHeight + titlePadding, doc.unrestored, doc.thrown)

\* Lines 1286-1304: one iteration of the gallery loop.
GalleryIteration(doc, disk, imgPath, titleHeight) ==
    CHOOSE next \in
        {ImageSlot(d, disk, imgPath, galleryX, galleryWidth, galleryHeight, "cover",
                   galleryHeight + gallerySpacing) :
            d \in {IF GalleryOverflows(doc.y)
                   THEN GalleryHead([doc EXCEPT !.pages = AddPage(doc.pages)], titleHeight)
                   ELSE doc}} : TRUE

directionsImgWidth == A4_WIDTH - 2 * MARGIN

\* Lines 1065-1066: the map's height at 1280 by 768, to a hundredth of a point.
directionsImgHeight == (directionsImgWidth * 768) \div 1280

fixedSize == (23 * INCH) \div 10

cityImgSpacing == ((A4_WIDTH - 2 * MARGIN) - 3 * fixedSize) \div 2

\* doc.heightOfString(aboutText) at 11pt: one line or three.
AboutHeights == {1272, 3815}

\* Lines 1037-1056: images.directions[0] || null, then the bundled sample
\* when that is null or has no file and the sample exists.
directionsPathOf(disk, first) ==
    IF existsSync(disk, first) THEN first
    ELSE IF \E s \in SamplePaths : existsSync(disk, s)
         THEN CHOOSE s \in SamplePaths : existsSync(disk, s)
         ELSE first

\* Lines 1069-1089: the map is drawn by doc.image itself, the placeholder
\* when the path has no file or doc.image throws.
DirectionsImage(disk, directionsPath, y) ==
    IF existsSync(disk, directionsPath) /\ disk[directionsPath] = "valid"
    THEN [op |-> "image", path |-> directionsPath,
          box |-> Box(MARGIN, y, directionsImgWidth, directionsImgHeight), fit |-> "size"]
    ELSE Placeholder(MARGIN, y, directionsImgWidth, directionsImgHeight)

\* Lines 1160-1163: the city list padded with null to three entries.
cityQueueOf(cityImages) ==
    [i \in 1..3 |-> IF i <= Len(cityImages) THEN cityImages[i] ELSE "null"]

\* createCityMapPage, lines 1024-1175, for a queue of three city paths: the
\* map, the text below it, then the three city images side by side.
CityMapPage(doc, disk, first, cityQueue, aboutHeight) ==
    CHOOSE next \in
        {LET afterMap ==
                 ImageDoc(Draw(d.pages, DirectionsImage(disk, directionsPathOf(disk, first),
                                                        contentY + 3000)),
                          contentY + 3000 + directionsImgHeight + 2000 + 2000 + 2000
                              + aboutHeight + 1500 + 2000 + 2000,
                          d.unrestored, d.thrown)
             slot1 == ImageSlot(afterMap, disk, cityQueue[1], MARGIN, fixedSize, fixedSize,
                                "cover", 0)
             slot2 == IF slot1.thrown THEN slot1
                      ELSE ImageSlot(slot1, disk, cityQueue[2],
                                     MARGIN + (fixedSize + cityImgSpacing), fixedSize,
                                     fixedSize, "cover", 0)
         IN IF slot2.thrown THEN slot2
            ELSE ImageSlot(slot2, disk, cityQueue[3],
                           MARGIN + 2 * (fixedSize + cityImgSpacing), fixedSize, fixedSize,
                           "cover", 0) :
            d \in {ImageDoc(Draw(drawHeader(doc.pages, "citymap"),
                                 Op("title", "citymap", "City Map", contentY)),
                            contentY, doc.unrestored, doc.thrown)}} : TRUE

\* The lists of gallery paths: null entries included.
ImageLists == SeqsUpTo(ImagePaths \cup {"null"}, MaxGallery)

\* The city lists: one image, or two and a null entry (an empty list makes
\* the page look for bundled samples first; it is not drawn here).
CityLists == {<<"a.jpg">>, <<"b.jpg", "null", "a.jpg">>}

\* The run every path of which is a valid image: a null entry is replaced
\* by a path, and every file can be read.
ValidPath(path) == IF path = "null" THEN "a.jpg" ELSE path

ValidDisk == [p \in ImagePaths \cup SamplePaths |-> "valid"]

\* The first page of a section, nothing drawn yet.
EmptyDoc == ImageDoc(<<<<>>>>, 0, 0, FALSE)

\* No image is being laid out.
ImageIdle ==
    /\ imgDisk = ValidDisk
    /\ imgGallery = <<>>
    /\ imgDirections = "null"
    /\ imgCity = <<>>
    /\ imgDoc = EmptyDoc
    /\ imgRef = EmptyDoc
    /\ imgIndex = 0
    /\ imgPc = "idle"

\* ------------------------------------------------ createCoverPage's images
\* The paths of the cover and property lists: two rooms, a file named for
\* the front exterior (in capitals), a file front.jpg in a directory named
\* exterior, and the null entry.
CoverPaths == {"room.jpg", "kitchen.jpg", "Exterior_Front.JPG", "exterior/front.jpg"}

\* A path as its symbols.
PathSymbols(imgPath) ==
    CASE imgPath = "room.jpg" -> <<"room", ".jpg">>
      [] imgPath = "kitchen.jpg" -> <<"kitchen", ".jpg">>
      [] imgPath = "Exterior_Front.JPG" -> <<"Exterior", "_", "Front", ".JPG">>
      [] imgPath = "exterior/front.jpg" -> <<"exterior", "/", "front", ".jpg">>

\* path.basename: what follows the last separator
RECURSIVE basename(_)
basename(symbols) ==
    IF symbols = <<>> THEN <<>>
    ELSE IF \E i \in DOMAIN Tail(symbols) : Tail(symbols)[i] = "/" THEN basename(Tail(symbols))
    ELSE IF Head(symbols) = "/" THEN Tail(symbols)
    ELSE symbols

\* String.prototype.toLowerCase, symbol by symbol
toLowerCase(symbols) ==
    [i \in DOMAIN symbols |->
        CASE symbols[i] = "Exterior" -> "exterior"
          [] symbols[i] = "Front" -> "front"
          [] symbols[i] = ".JPG" -> ".jpg"
          [] OTHER -> symbols[i]]

\* String.prototype.includes for a word that is one symbol
includes(symbols, word) == \E i \in DOMAIN symbols : symbols[i] = word

\* Lines 183-184: the file name tells the front exterior.
IsExteriorFront(imgPath) ==
    LET filename == toLowerCase(basename(PathSymbols(imgPath)))
    IN includes(filename, "exterior") /\ includes(filename, "front")

\* Lines 179-192: the first truthy path whose file name tells the front
\* exterior, else allImages[0], else null.
mainImagePathOf(allImages) ==
    LET found == {i \in DOMAIN allImages :
                     allImages[i] # "null" /\ IsExteriorFront(allImages[i])}
    IN IF found # {} THEN allImages[CHOOSE i \in found : \A j \in found : i <= j]
       ELSE IF Len(allImages) > 0 THEN allImages[1]
       ELSE "null"

\* Line 203: allImages.filter(img => img !== mainImagePath).slice(0, 3)
thumbnailsOf(allImages, mainImagePath) ==
    LET rest == SelectSeq(allImages, LAMBDA img : img # mainImagePath)
    IN SubSeq(rest, 1, IF Len(rest) < 3 THEN Len(rest) ELSE 3)

\* Line 207: thumbnails[i] || null, i from 0
thumbPathOf(thumbnails, i) == IF i + 1 <= Len(thumbnails) THEN thumbnails[i + 1] ELSE "null"

mainImageHeight == (45 * INCH) \div 10

thumbnailHeight == (15 * INCH) \div 10

\* (contentWidth - 0.4 inch) / 3, to the hundredth of a point
thumbnailWidth == ((A4_WIDTH - 2 * MARGIN) - (4 * INCH) \div 10) \div 3

thumbnailSpacing == (2 * INCH) \div 10

\* Every file of the cover page is an image that can be read.
CoverDisk == [p \in CoverPaths |-> "valid"]

\* Line 194: the hero image, below the address.
CoverMain(mainImagePath, addressHeight) ==
    addImageToPDFOn(CoverDisk, mainImagePath, MARGIN, contentY + addressHeight + INCH \div 10,
                    A4_WIDTH - 2 * MARGIN, mainImageHeight, "cover").drawn

\* Lines 205-210: thumbnail i, below the hero image.
CoverThumbnail(thumbnails, i, y) ==
    addImageToPDFOn(CoverDisk, thumbPathOf(thumbnails, i),
                    MARGIN + i * (thumbnailWidth + thumbnailSpacing), y,
                    thumbnailWidth, thumbnailHeight, "cover").drawn

\* The cover lists: null entries and repeated paths included.
CoverLists(n) == SeqsUpTo(CoverPaths \cup {"null"}, n)

\* No cover page is being laid out.
CoverIdle ==
    /\ covCover = <<>>
    /\ covProperty = <<>>
    /\ covMain = "null"
    /\ covDrawn = <<>>
    /\ covPc = "idle"

\* ------------------------------------------------------------ /proxy-image
\* A host name as its labels.  Lines 126-133: the allowed domains.
allowedDomains ==
    {<<"source", "unsplash", "com">>, <<"images", "unsplash", "com">>, <<"unsplash", "com">>,
     <<"images", "pexels", "com">>, <<"pexels", "com">>, <<"api", "pexels", "com">>}

\* The host names of the requests and of the Location headers: two allowed
\* domains, a host of another site whose name holds an allowed domain, and
\* a host of another site.
ProxyHosts ==
    {<<"images", "pexels", "com">>, <<"unsplash", "com">>,
     <<"pexels", "com", "evil", "net">>, <<"evil", "net">>}

\* req.query.url: absent, not a URL, or a URL of some host
ProxyUrl(kind, hostname) == [kind |-> kind, hostname |-> hostname]

ProxyUrls ==
    {ProxyUrl("missing", <<>>), ProxyUrl("invalid", <<>>)}
    \cup {ProxyUrl("url", h) : h \in ProxyHosts}

\* String.prototype.includes, label by label: domain occurs inside hostname
hostnameIncludes(hostname, domain) ==
    \E k \in 0..(Len(hostname) - Len(domain)) :
        SubSeq(hostname, k + 1, k + Len(domain)) = domain

\* Line 135: allowedDomains.some(domain => urlObj.hostname.includes(domain))
domainAllowed(hostname) == \E domain \in allowedDomains : hostnameIncludes(hostname, domain)

\* Line 144: the redirects fetchImage follows
MaxRedirects == 5

\* The status codes of the responses.
PROXY_OK == 200
BAD_REQUEST == 400
FORBIDDEN == 403
UNAVAILABLE == 503

\* res.headersSent
headersSent(responses) == Len(responses) > 0

\* No proxy request is being served.
ProxyIdle ==
    /\ prxUrl = ProxyUrl("missing", <<>>)
    /\ prxFetched = <<>>
    /\ prxRedirectCount = 0
    /\ prxResponses = <<>>
    /\ prxPc = "idle"

\* The pure functions are not being run.
PureIdle ==
    /\ CalcIdle
    /\ CurrencyIdle
    /\ EpcIdle
    /\ SectionIdle
    /\ ImageIdle
    /\ CoverIdle
    /\ ProxyIdle

\* ------------------------------------------------------------------ Init
Requests == 1..MaxRequests

\* The server before any request: used while generatePDF is studied alone.
ServerIdle ==
    /\ clock = 0
    /\ req = [r \in Requests |-> [pc |-> "off", todo |-> 0, outPath |-> 0, temp |-> {}, response |-> 0]]
    /\ outFiles = [t \in 0..MaxClock |-> 0]
    /\ tempOnDisk = {}

Init ==
    /\ outputPath \in OutputPaths
    /\ data \in [selected_calculators : SelectedInputs,
                 calculator_type : {Undefined, "flip"},
                 key_features : KeyFeatures,
                 purchase_price : {"200000"},
                 calculator_flip : {JSValue("undefined", <<>>), JSValue("object", <<"100000">>)}]
    /\ images \in [cover : {<<>>},
                   property : GalleryInputs,
                   floor_plans : SeqsUpTo(FloorPaths, MaxFloorPlans),
                   city : {<<>>}]
    /\ data0 = data
    /\ images0 = images
    /\ pc = "start"
    /\ pages = <<>>
    /\ selectedCalculators = <<>>
    /\ index = 0
    /\ currentY = 0
    /\ dataForCalc = <<>>
    /\ promise = "pending"
    /\ stream = "none"
    /\ docEnded = FALSE
    /\ listening = FALSE
    /\ uncaught = FALSE
    /\ ServerIdle
    /\ PureIdle

\* --------------------------------------------------------------- actions
\* Lines 1183-1212: validation of outputPath, then the document (whose
\* first page exists from construction) and the write stream are created.
InvalidOutputPath(o) == o \in {"null", "nonstring", "empty"}

Start ==
    /\ pc = "start"
    /\ IF InvalidOutputPath(outputPath)
       THEN /\ promise' = Reject(promise)
            /\ pc' = "returned"
            /\ UNCHANGED <<pages, stream>>
       ELSE /\ pages' = <<<<>>>>
            /\ stream' = "open"
            /\ pc' = SectionOrder[1]
            /\ UNCHANGED promise
    /\ UNCHANGED <<srvVars, fnVars>>
    /\ UNCHANGED <<outputPath, data, images, data0, images0, selectedCalculators, index,
                   currentY, dataForCalc, docEnded, listening, uncaught>>

\* Lines 1215-1216: createCoverPage, then doc.addPage().
CreateCoverPage ==
    /\ pc = "cover"
    /\ LET all == images.cover \o images.property
           hero == IF Len(all) > 0 THEN all[1] ELSE "null"
       IN pages' = AddPage(addImageToPDF(
                       Draw(drawHeader(pages, "cover"), Op("title", "cover", "address", contentY)),
                       "cover", hero, contentY))
    /\ pc' = NextSection("cover")
    /\ index' = 0
    /\ UNCHANGED <<srvVars, fnVars>>
    /\ UNCHANGED <<outputPath, data, images, data0, images0, selectedCalculators,
                   currentY, dataForCalc, promise, stream, docEnded, listening, uncaught>>

\* Lines 603-629: createInvestmentPage resolves the calculator list.
CreateInvestmentPage ==
    /\ pc = "investment"
    /\ selectedCalculators' = NormalizeCalculators(data)
    /\ index' = 0
    /\ pc' = "section"
    /\ UNCHANGED <<srvVars, fnVars>>
    /\ UNCHANGED <<outputPath, data, images, data0, images0, pages,
                   currentY, dataForCalc, promise, stream, docEnded, listening, uncaught>>

\* Mutation: the second section does not get a page of its own.
SectionNeedsNewPageLate(i) == i > 1

\* Line 636: a section starts a new page when it is not the first.
SectionNeedsNewPage(i) == i > 0

\* Lines 632-656: one iteration of the forEach over the calculators.
CalculatorSection ==
    /\ pc = "section"
    /\ index < Len(selectedCalculators)
    /\ LET calculatorType == selectedCalculators[index + 1]
           objs == CalcObjects(data, CalcDataOf(data, calculatorType), calculatorType)
           doc0 == IF SectionNeedsNewPage(index) THEN AddPage(pages) ELSE pages
       IN /\ pages' = Draw(drawHeader(doc0, "investment"),
                           Op("calc", "investment", calculatorType, contentY))
          /\ data' = objs.caller
          /\ dataForCalc' = <<objs.copy>>
    /\ index' = index + 1
    /\ UNCHANGED <<srvVars, fnVars>>
    /\ UNCHANGED <<outputPath, images, data0, images0, pc, selectedCalculators,
                   currentY, promise, stream, docEnded, listening, uncaught>>

\* Line 1220: createInvestmentPage has returned; doc.addPage().
InvestmentDone ==
    /\ pc = "section"
    /\ index = Len(selectedCalculators)
    /\ pages' = AddPage(pages)
    /\ pc' = NextSection("investment")
    /\ index' = 0
    /\ UNCHANGED <<srvVars, fnVars>>
    /\ UNCHANGED <<outputPath, data, images, data0, images0, selectedCalculators,
                   currentY, dataForCalc, promise, stream, docEnded, listening, uncaught>>

\* Line 735: data.key_features.split throws a TypeError when the field is
\* truthy and not a string.
KeyFeaturesThrows(d) == d.key_features = "nonstring"

\* Mutation: the catch block swallows the error.
CatchSwallows(p) == p

\* Lines 1320-1322: the catch block rejects with the thrown error.
CatchBlock(p) == Reject(p)

\* Lines 1223-1224 and the catch of 1320-1322: createKeyInformationPage draws
\* its header, title and image; then either the feature list throws and the
\* catch rejects, or the page is completed and doc.addPage() follows.
CreateKeyInformationPage ==
    /\ pc = "keyinfo"
    /\ LET all == images.cover \o images.property
           img == IF Len(all) > 0 THEN all[1] ELSE "null"
           drawn == addImageToPDF(
                        Draw(drawHeader(pages, "keyinfo"), Op("title", "keyinfo", "Key Information", contentY)),
                        "keyinfo", img, contentY + 3000)
       IN IF KeyFeaturesThrows(data)
          THEN /\ pages' = drawn
               /\ promise' = CatchBlock(promise)
               /\ pc' = "returned"
          ELSE /\ pages' = AddPage(drawn)
               /\ pc' = NextSection("keyinfo")
               /\ UNCHANGED promise
    /\ UNCHANGED <<srvVars, fnVars>>
    /\ UNCHANGED <<outputPath, data, images, data0, images0, selectedCalculators, index,
                   currentY, dataForCalc, stream, docEnded, listening, uncaught>>

\* Lines 1227-1228: createOtherKeyInformationPage, then doc.addPage().
CreateOtherKeyInformationPage ==
    /\ pc = "otherinfo"
    /\ LET all == images.cover \o images.property
           img == IF Len(all) > 0 THEN all[1] ELSE "null"
       IN pages' = AddPage(addImageToPDF(
                       Draw(drawHeader(pages, "otherinfo"), Op("title", "otherinfo", "Other Key Information", contentY)),
                       "otherinfo", img, contentY + 3000))
    /\ pc' = NextSection("otherinfo")
    /\ index' = 0
    /\ UNCHANGED <<srvVars, fnVars>>
    /\ UNCHANGED <<outputPath, data, images, data0, images0, selectedCalculators,
                   currentY, dataForCalc, promise, stream, docEnded, listening, uncaught>>

\* Line 1246: a page is added after a floor plan unless its path equals the
\* path of the last floor plan.
FloorPlanNeedsNewPage(floorPlanPath, floorPlans) == floorPlanPath # floorPlans[Len(floorPlans)]

\* Lines 1234-1249: one iteration of the loop over the floor plans.
FloorPlanPage ==
    /\ pc = "floor"
    /\ index < Len(images.floor_plans)
    /\ LET floorPlans == images.floor_plans
           floorPlanPath == floorPlans[index + 1]
           drawn == addImageToPDF(
                        Draw(drawHeader(pages, "floor"), Op("title", "floor", "Floor Plans", contentY)),
                        "floor", floorPlanPath, contentY + 3000)
       IN pages' = IF FloorPlanNeedsNewPage(floorPlanPath, floorPlans) THEN AddPage(drawn) ELSE drawn
    /\ index' = index + 1
    /\ UNCHANGED <<srvVars, fnVars>>
    /\ UNCHANGED <<outputPath, data, images, data0, images0, pc, selectedCalculators,
                   currentY, dataForCalc, promise, stream, docEnded, listening, uncaught>>

\* Lines 1250-1262: no floor plans, one placeholder page.
FloorPlanPlaceholder ==
    /\ pc = "floor"
    /\ Len(images.floor_plans) = 0
    /\ index = 0
    /\ pages' = addImageToPDF(
                    Draw(drawHeader(pages, "floor"), Op("title", "floor", "Floor Plans", contentY)),
                    "floor", "null", contentY + 3000)
    /\ index' = 1
    /\ UNCHANGED <<srvVars, fnVars>>
    /\ UNCHANGED <<outputPath, data, images, data0, images0, pc, selectedCalculators,
                   currentY, dataForCalc, promise, stream, docEnded, listening, uncaught>>

\* Line 1263: doc.addPage() after the floor plans.
FloorPlansDone ==
    /\ pc = "floor"
    /\ index = IF Len(images.floor_plans) = 0 THEN 1 ELSE Len(images.floor_plans)
    /\ pages' = AddPage(pages)
    /\ pc' = NextSection("floor")
    /\ index' = 0
    /\ UNCHANGED <<srvVars, fnVars>>
    /\ UNCHANGED <<outputPath, data, images, data0, images0, selectedCalculators,
                   currentY, dataForCalc, promise, stream, docEnded, listening, uncaught>>

\* Line 1266: images.property || images.cover || []  (an array is truthy).
GalleryImages(imgs) == imgs.property

\* Lines 1267-1284: the gallery's first header and title, when there is at
\* least one image.
GalleryStart ==
    /\ pc = "gallery"
    /\ IF Len(GalleryImages(images)) > 0
       THEN \E titleHeight \in TitleHeights :
               /\ pages' = Draw(drawHeader(pages, "gallery"),
                                Op("title", "gallery", "Property Images", contentY))
               /\ currentY' = contentY + titleHeight + titlePadding
       ELSE UNCHANGED <<pages, currentY>>
    /\ index' = 0
    /\ pc' = "galleryloop"
    /\ UNCHANGED <<srvVars, fnVars>>
    /\ UNCHANGED <<outputPath, data, images, data0, images0, selectedCalculators,
                   dataForCalc, promise, stream, docEnded, listening, uncaught>>

\* Lines 1286-1304: one iteration of the loop over the gallery images.
GalleryImage ==
    /\ pc = "galleryloop"
    /\ index < Len(GalleryImages(images))
    /\ LET imgPath == GalleryImages(images)[index + 1]
       IN IF GalleryOverflows(currentY)
          THEN \E contTitleHeight \in TitleHeights :
                  LET y == contentY + contTitleHeight + titlePadding
                      doc0 == Draw(drawHeader(AddPage(pages), "gallery"),
                                   Op("title", "gallery", "Property Images", contentY))
                  IN /\ pages' = addImageToPDF(doc0, "gallery", imgPath, y)
                     /\ currentY' = y + galleryHeight + gallerySpacing
          ELSE /\ pages' = addImageToPDF(pages, "gallery", imgPath, currentY)
               /\ currentY' = currentY + galleryHeight + gallerySpacing
    /\ index' = index + 1
    /\ UNCHANGED <<srvVars, fnVars>>
    /\ UNCHANGED <<outputPath, data, images, data0, images0, pc, selectedCalculators,
                   dataForCalc, promise, stream, docEnded, listening, uncaught>>

\* Line 1306: doc.addPage() after the gallery, executed whether or not the
\* gallery drew anything.
GalleryDone ==
    /\ pc = "galleryloop"
    /\ index = Len(GalleryImages(images))
    /\ pages' = AddPage(pages)
    /\ pc' = NextSection("gallery")
    /\ index' = 0
    /\ UNCHANGED <<srvVars, fnVars>>
    /\ UNCHANGED <<outputPath, data, images, data0, images0, selectedCalculators,
                   currentY, dataForCalc, promise, stream, docEnded, listening, uncaught>>

\* Line 1309: createCityMapPage.
CreateCityMapPage ==
    /\ pc = "citymap"
    /\ LET q == CityQueue(images.city)
           doc0 == addImageToPDF(
                       Draw(drawHeader(pages, "citymap"), Op("title", "citymap", "City Map", contentY)),
                       "citymap", "directions", contentY + 3000)
       IN /\ pages' = DrawAll(doc0, [i \in 1..3 |-> Op("image", "citymap", q.queue[i], contentY + 60000)])
          /\ images' = [images EXCEPT !.city = q.caller]
    /\ pc' = NextSection("citymap")
    /\ UNCHANGED <<srvVars, fnVars>>
    /\ UNCHANGED <<outputPath, data, data0, images0, selectedCalculators, index,
                   currentY, dataForCalc, promise, stream, docEnded, listening, uncaught>>

\* Lines 1311-1319: doc.end(), then the 'finish' and 'error' listeners are
\* attached; the promise executor returns.
EndDocument ==
    /\ pc = "end"
    /\ docEnded' = TRUE
    /\ listening' = TRUE
    /\ pc' = "returned"
    /\ UNCHANGED <<srvVars, fnVars>>
    /\ UNCHANGED <<outputPath, data, images, data0, images0, pages, selectedCalculators, index,
                   currentY, dataForCalc, promise, stream, uncaught>>

\* The write stream emits 'finish' once the ended document is flushed to a
\* writable destination; the listener of line 1313 resolves.
StreamFinish ==
    /\ pc = "returned"
    /\ stream = "open"
    /\ docEnded
    /\ outputPath = "ok"
    /\ stream' = "finished"
    /\ promise' = IF listening THEN Resolve(promise) ELSE promise
    /\ UNCHANGED <<srvVars, fnVars>>
    /\ UNCHANGED <<outputPath, data, images, data0, images0, pc, pages, selectedCalculators, index,
                   currentY, dataForCalc, docEnded, listening, uncaught>>

\* The write stream emits 'error' when the destination cannot be opened;
\* the event is delivered after the synchronous code has run. The listener
\* of line 1317 rejects; with no listener the event is an uncaught exception.
StreamError ==
    /\ pc = "returned"
    /\ stream = "open"
    /\ outputPath = "unwritable"
    /\ stream' = "errored"
    /\ promise' = IF listening THEN Reject(promise) ELSE promise
    /\ uncaught' = ~listening
    /\ UNCHANGED <<srvVars, fnVars>>
    /\ UNCHANGED <<outputPath, data, images, data0, images0, pc, pages, selectedCalculators, index,
                   currentY, dataForCalc, docEnded, listening>>

Next ==
    \/ Start
    \/ CreateCoverPage
    \/ CreateInvestmentPage
    \/ CalculatorSection
    \/ InvestmentDone
    \/ CreateKeyInformationPage
    \/ CreateOtherKeyInformationPage
    \/ FloorPlanPage
    \/ FloorPlanPlaceholder
    \/ FloorPlansDone
    \/ GalleryStart
    \/ GalleryImage
    \/ GalleryDone
    \/ CreateCityMapPage
    \/ EndDocument
    \/ StreamFinish
    \/ StreamError

Spec == Init /\ [][Next]_vars

\* The event loop runs every enabled step: the synchronous code runs to
\* completion and a pending stream event is eventually delivered.
LiveSpec == Init /\ [][Next]_vars /\ WF_vars(Next)

\* ------------------------------------------------- the /generate handler
\* Responses: 0 none yet, r the document generated for request r,
\* SERVER_ERROR the 500 answer, READ_FAILED a read stream that found no file.
SERVER_ERROR == 500
READ_FAILED == 404

\* generatePDF is not running: the handler is studied with its outcome only.
GenIdle ==
    /\ outputPath = "ok"
    /\ data = [selected_calculators |-> JSValue("undefined", <<>>), calculator_type |-> Undefined,
               key_features |-> "string", purchase_price |-> "200000",
               calculator_flip |-> JSValue("undefined", <<>>)]
    /\ images = [cover |-> <<>>, property |-> <<>>, floor_plans |-> <<>>, city |-> <<>>]
    /\ data0 = data
    /\ images0 = images
    /\ pc = "idle"
    /\ pages = <<>>
    /\ selectedCalculators = <<>>
    /\ index = 0
    /\ currentY = 0
    /\ dataForCalc = <<>>
    /\ promise = "pending"
    /\ stream = "none"
    /\ docEnded = FALSE
    /\ listening = FALSE
    /\ uncaught = FALSE

\* Line 64: path.join(__dirname, 'logo.png'), the logo bundled with the server;
\* a temporary file is <<request, number>>, numbered from 1.
DefaultLogo == <<0, 0>>

ServerInit ==
    /\ GenIdle
    /\ clock = 0
    /\ req = [r \in Requests |-> [pc |-> "idle", todo |-> 0, outPath |-> 0, temp |-> {}, response |-> 0]]
    /\ outFiles = [t \in 0..MaxClock |-> 0]
    /\ tempOnDisk = {DefaultLogo}
    /\ PureIdle

\* Date.now() advances.
Tick ==
    /\ clock < MaxClock
    /\ clock' = clock + 1
    /\ UNCHANGED <<req, outFiles, tempOnDisk>>
    /\ UNCHANGED <<genVars, fnVars>>

\* Line 74: report-${Date.now()}.pdf
OutPathAt(now) == now

\* Lines 34-44: a request arrives with some base64 payloads to decode: its
\* images and, last, its logo_base64.
Receive(r) ==
    /\ req[r].pc = "idle"
    /\ \E n \in 0..MaxImages : req' = [req EXCEPT ![r].pc = "decoding", ![r].todo = n]
    /\ UNCHANGED <<clock, outFiles, tempOnDisk>>
    /\ UNCHANGED <<genVars, fnVars>>

\* Lines 45-54, 59-61 and 15-30: await writeBase64Image, and the path is
\* pushed on tempFiles; the file name carries Date.now() and Math.random(),
\* taken here as unique to the request and payload.
DecodeImage(r) ==
    /\ req[r].pc = "decoding"
    /\ req[r].todo > 0
    /\ LET fp == <<r, req[r].todo>>
       IN /\ tempOnDisk' = tempOnDisk \cup {fp}
          /\ req' = [req EXCEPT ![r].temp = @ \cup {fp}, ![r].todo = @ - 1]
    /\ UNCHANGED <<clock, outFiles>>
    /\ UNCHANGED <<genVars, fnVars>>

\* Lines 22-24 and 89-92: fs.writeFile fails; the catch answers 500.
DecodeFails(r) ==
    /\ req[r].pc = "decoding"
    /\ req[r].todo > 0
    /\ req' = [req EXCEPT ![r].pc = "done", ![r].response = SERVER_ERROR]
    /\ UNCHANGED <<clock, outFiles, tempOnDisk>>
    /\ UNCHANGED <<genVars, fnVars>>

\* Lines 63-77: with no logo left to decode the bundled logo is used as it
\* is (it is not pushed on tempFiles); the output path is taken from the
\* clock and generatePDF is called; the handler awaits its promise.
PrepareOutput(r) ==
    /\ req[r].pc = "decoding"
    /\ req[r].todo = 0
    /\ req' = [req EXCEPT ![r].pc = "generating", ![r].outPath = OutPathAt(clock)]
    /\ UNCHANGED <<clock, outFiles, tempOnDisk>>
    /\ UNCHANGED <<genVars, fnVars>>

\* Line 77 fulfilled, lines 80-84: the document of this request is in the
\* file at outPath; a read stream on outPath is piped to the response.
GenerateResolves(r) ==
    /\ req[r].pc = "generating"
    /\ outFiles' = [outFiles EXCEPT ![req[r].outPath] = r]
    /\ req' = [req EXCEPT ![r].pc = "streaming"]
    /\ UNCHANGED <<clock, tempOnDisk>>
    /\ UNCHANGED <<genVars, fnVars>>

\* Line 77 rejected, lines 89-92: the catch answers 500.
GenerateRejects(r) ==
    /\ req[r].pc = "generating"
    /\ req' = [req EXCEPT ![r].pc = "done", ![r].response = SERVER_ERROR]
    /\ UNCHANGED <<clock, outFiles, tempOnDisk>>
    /\ UNCHANGED <<genVars, fnVars>>

\* Lines 83-84: the read stream sends what the file at outPath holds.
StreamFile(r) ==
    /\ req[r].pc = "streaming"
    /\ LET held == outFiles[req[r].outPath]
       IN req' = [req EXCEPT ![r].pc = "closing",
                             ![r].response = IF held = 0 THEN READ_FAILED ELSE held]
    /\ UNCHANGED <<clock, outFiles, tempOnDisk>>
    /\ UNCHANGED <<genVars, fnVars>>

\* Lines 85-88: on 'close' the output file and the temp files are unlinked.
Cleanup(r) ==
    /\ req[r].pc = "closing"
    /\ outFiles' = [outFiles EXCEPT ![req[r].outPath] = 0]
    /\ tempOnDisk' = tempOnDisk \ req[r].temp
    /\ req' = [req EXCEPT ![r].pc = "done"]
    /\ UNCHANGED clock
    /\ UNCHANGED <<genVars, fnVars>>

ServerNext ==
    \/ Tick
    \/ \E r \in Requests : Receive(r)
    \/ \E r \in Requests : DecodeImage(r)
    \/ \E r \in Requests : DecodeFails(r)
    \/ \E r \in Requests : PrepareOutput(r)
    \/ \E r \in Requests : GenerateResolves(r)
    \/ \E r \in Requests : GenerateRejects(r)
    \/ \E r \in Requests : StreamFile(r)
    \/ \E r \in Requests : Cleanup(r)

ServerSpec == ServerInit /\ [][ServerNext]_vars

\* ------------------------------------------- the parts a function leaves alone
exceptCalcVars == <<genVars, srvVars, curVars, epcVars, secVars, imgVars,
                    covVars, prxVars>>

ExceptCalcIdle ==
    /\ GenIdle
    /\ ServerIdle
    /\ CurrencyIdle
    /\ EpcIdle
    /\ SectionIdle
    /\ ImageIdle
    /\ CoverIdle
    /\ ProxyIdle

exceptCurrencyVars == <<genVars, srvVars, calcVars, epcVars, secVars, imgVars,
                        covVars, prxVars>>

ExceptCurrencyIdle ==
    /\ GenIdle
    /\ ServerIdle
    /\ CalcIdle
    /\ EpcIdle
    /\ SectionIdle
    /\ ImageIdle
    /\ CoverIdle
    /\ ProxyIdle

exceptEpcVars == <<genVars, srvVars, calcVars, curVars, secVars, imgVars,
                   covVars, prxVars>>

ExceptEpcIdle ==
    /\ GenIdle
    /\ ServerIdle
    /\ CalcIdle
    /\ CurrencyIdle
    /\ SectionIdle
    /\ ImageIdle
    /\ CoverIdle
    /\ ProxyIdle

exceptSectionVars == <<genVars, srvVars, calcVars, curVars, epcVars, imgVars,
                       covVars, prxVars>>

ExceptSectionIdle ==
    /\ GenIdle
    /\ ServerIdle
    /\ CalcIdle
    /\ CurrencyIdle
    /\ EpcIdle
    /\ ImageIdle
    /\ CoverIdle
    /\ ProxyIdle

exceptImageVars == <<genVars, srvVars, calcVars, curVars, epcVars, secVars,
                     covVars, prxVars>>

ExceptImageIdle ==
    /\ GenIdle
    /\ ServerIdle
    /\ CalcIdle
    /\ CurrencyIdle
    /\ EpcIdle
    /\ SectionIdle
    /\ CoverIdle
    /\ ProxyIdle

exceptCoverVars == <<genVars, srvVars, calcVars, curVars, epcVars, secVars,
                     imgVars, prxVars>>

ExceptCoverIdle ==
    /\ GenIdle
    /\ ServerIdle
    /\ CalcIdle
    /\ CurrencyIdle
    /\ EpcIdle
    /\ SectionIdle
    /\ ImageIdle
    /\ ProxyIdle

exceptProxyVars == <<genVars, srvVars, calcVars, curVars, epcVars, secVars,
                     imgVars, covVars>>

ExceptProxyIdle ==
    /\ GenIdle
    /\ ServerIdle
    /\ CalcIdle
    /\ CurrencyIdle
    /\ EpcIdle
    /\ SectionIdle
    /\ ImageIdle
    /\ CoverIdle

\* ------------------------------------------------- the calculators, alone
\* The calculators are pure: they are studied on one call, with an input
\* mapping that is one of the base inputs with one field replaced.
CalcInit ==
    /\ ExceptCalcIdle
    /\ \E base \in BaseInputs, f \in Fields, v \in RawValues, t \in TypeInputs :
          calcInput = [base EXCEPT ![f] = v, !.calculator_type = t]
    /\ calcResult = NoResult
    /\ calcPc = "called"

\* calculateInvestment(data) runs and returns.
Calculate ==
    /\ calcPc = "called"
    /\ calcResult' = calculateInvestment(calcInput)
    /\ calcPc' = "returned"
    /\ UNCHANGED calcInput
    /\ UNCHANGED exceptCalcVars

CalcNext == Calculate

CalcSpec == CalcInit /\ [][CalcNext]_vars

\* ------------------------------------- parseCurrency and formatCurrency, alone
\* Either a value is parsed, or an amount is formatted and the text parsed back.
CurrencyInit ==
    /\ ExceptCurrencyIdle
    /\ curImpl \in Impls
    /\ curLocale \in Locales
    /\ \/ curPc = "format" /\ curX \in Amounts /\ curValue = VUndefined
       \/ curPc = "parse" /\ curX = Num(0) /\ curValue \in ParseInputs
    /\ curParsed = Num(0)

\* formatCurrency(x) returns its text.
FormatCurrency ==
    /\ curPc = "format"
    /\ curValue' = VString(IF curImpl = "calculator-logic.js"
                           THEN formatCurrency(curX) ELSE pdfFormatCurrency(curX, curLocale))
    /\ curPc' = "formatted"
    /\ UNCHANGED <<curImpl, curLocale, curX, curParsed>>
    /\ UNCHANGED exceptCurrencyVars

\* parseCurrency(value) returns its number.
ParseCurrency ==
    /\ curPc \in {"parse", "formatted"}
    /\ curParsed' = (IF curImpl = "calculator-logic.js"
                     THEN parseCurrency(curValue) ELSE pdfParseCurrency(curValue))
    /\ curPc' = (IF curPc = "parse" THEN "parsed" ELSE "roundtrip")
    /\ UNCHANGED <<curImpl, curLocale, curX, curValue>>
    /\ UNCHANGED exceptCurrencyVars

CurrencyNext == FormatCurrency \/ ParseCurrency

CurrencySpec == CurrencyInit /\ [][CurrencyNext]_vars

\* ---------------------------------------------------- the EPC chart, alone
EpcInit ==
    /\ ExceptEpcIdle
    /\ epcData \in [current_rating : Ratings, epc_rating : EpcRatings,
                    potential_rating : Ratings]
    /\ epcY \in ChartYs
    /\ epcBars = <<>>
    /\ epcBadges = <<>>
    /\ epcPc = "called"

\* createEPCChart(doc, data, chartX, currentY) draws the seven bars and the two badges.
CreateEPCChart ==
    /\ epcPc = "called"
    /\ epcBars' = [i \in DOMAIN epcBands |-> EpcBar(i, chartX, epcY)]
    /\ epcBadges' =
          LET startX == chartX - (15 * INCH) \div 100
              colGap == (20 * INCH) \div 100
              currentColX == startX + epcChartWidth + colGap
              potentialColX == currentColX + (90 * INCH) \div 100 + colGap
              currentScore == currentScoreOf(epcData)
              potentialScore == potentialScoreOf(epcData)
          IN <<drawValueBadge(currentColX + (4 * INCH) \div 100,
                              bandCenterY(currentScore, epcY), currentScore,
                              letterFor(currentScore)),
               drawValueBadge(potentialColX + (4 * INCH) \div 100,
                              bandCenterY(potentialScore, epcY), potentialScore,
                              letterFor(potentialScore))>>
    /\ epcPc' = "drawn"
    /\ UNCHANGED <<epcData, epcY>>
    /\ UNCHANGED exceptEpcVars

EpcNext == CreateEPCChart

EpcSpec == EpcInit /\ [][EpcNext]_vars

\* ------------------------------------------- one calculator section, alone
\* Lines 647-653 of createInvestmentPage for one calculator type: the
\* sub-mapping gives at most one field, the top-level mapping is one of the
\* base inputs.
SectionInit ==
    /\ ExceptSectionIdle
    /\ secType \in SectionTypes
    /\ secAllData \in BaseInputs
    /\ \E f \in Fields, v \in RawValues : secCalcData = [EmptyCalcData EXCEPT ![f] = v]
    /\ secInput = EmptyInput
    /\ secValues = NoResult
    /\ secRows = NoResult
    /\ secPc = "called"

\* Line 650: values = calculateCalculatorValues(calculatorType, calcData, data)
CalculateCalculatorValues ==
    /\ secPc = "called"
    /\ secInput' = dataForCalcOf(secType, secCalcData, secAllData)
    /\ secValues' = calculateCalculatorValues(secType, secCalcData, secAllData)
    /\ secPc' = "calculated"
    /\ UNCHANGED <<secType, secCalcData, secAllData, secRows>>
    /\ UNCHANGED exceptSectionVars

\* Line 653: renderCalculatorSection(doc, calculatorType, values, contentY)
RenderCalculatorSection ==
    /\ secPc = "calculated"
    /\ secRows' = renderCalculatorSection(secType, secValues)
    /\ secPc' = "rendered"
    /\ UNCHANGED <<secType, secCalcData, secAllData, secInput, secValues>>
    /\ UNCHANGED exceptSectionVars

SectionNext == CalculateCalculatorValues \/ RenderCalculatorSection

SectionSpec == SectionInit /\ [][SectionNext]_vars

\* -------------------------------------------------- the image slots, alone
\* The gallery and the city map page of generatePDF are laid out twice, side
\* by side: imgDoc on the disk as it is, imgRef with every path a valid image.
ImageInit ==
    /\ ExceptImageIdle
    /\ imgDisk \in [ImagePaths \cup SamplePaths -> FileStates]
    /\ imgGallery \in ImageLists
    /\ imgDirections \in {"null", "b.jpg"}
    /\ imgCity \in CityLists
    /\ imgDoc = EmptyDoc
    /\ imgRef = EmptyDoc
    /\ imgIndex = 0
    /\ imgPc = "gallery"

\* Where the layout goes on: nowhere once an error has escaped.
ImagePcAfter(doc, next) == IF doc.thrown THEN "aborted" ELSE next

\* Lines 1266-1284: the gallery's first header and title, when the list has
\* an image.
ImageGalleryStart ==
    /\ imgPc = "gallery"
    /\ IF Len(imgGallery) > 0
       THEN \E titleHeight \in TitleHeights :
               /\ imgDoc' = GalleryHead(imgDoc, titleHeight)
               /\ imgRef' = GalleryHead(imgRef, titleHeight)
       ELSE UNCHANGED <<imgDoc, imgRef>>
    /\ imgIndex' = 0
    /\ imgPc' = "galleryloop"
    /\ UNCHANGED <<imgDisk, imgGallery, imgDirections, imgCity>>
    /\ UNCHANGED exceptImageVars

\* Lines 1286-1304: one iteration of the loop over the gallery images.
ImageGalleryImage ==
    /\ imgPc = "galleryloop"
    /\ imgIndex < Len(imgGallery)
    /\ \E contTitleHeight \in TitleHeights :
          /\ imgDoc' = GalleryIteration(imgDoc, imgDisk, imgGallery[imgIndex + 1],
                                        contTitleHeight)
          /\ imgRef' = GalleryIteration(imgRef, ValidDisk, ValidPath(imgGallery[imgIndex + 1]),
                                        contTitleHeight)
    /\ imgIndex' = imgIndex + 1
    /\ imgPc' = ImagePcAfter(imgDoc', "galleryloop")
    /\ UNCHANGED <<imgDisk, imgGallery, imgDirections, imgCity>>
    /\ UNCHANGED exceptImageVars

\* Line 1306: doc.addPage() after the gallery.
ImageGalleryDone ==
    /\ imgPc = "galleryloop"
    /\ imgIndex = Len(imgGallery)
    /\ imgDoc' = [imgDoc EXCEPT !.pages = AddPage(imgDoc.pages)]
    /\ imgRef' = [imgRef EXCEPT !.pages = AddPage(imgRef.pages)]
    /\ imgPc' = "citymap"
    /\ UNCHANGED <<imgDisk, imgGallery, imgDirections, imgCity, imgIndex>>
    /\ UNCHANGED exceptImageVars

\* Line 1309: createCityMapPage.
ImageCityMapPage ==
    /\ imgPc = "citymap"
    /\ \E aboutHeight \in AboutHeights :
          /\ imgDoc' = CityMapPage(imgDoc, imgDisk, imgDirections, cityQueueOf(imgCity),
                                   aboutHeight)
          /\ imgRef' = CityMapPage(imgRef, ValidDisk, ValidPath(imgDirections),
                                   [i \in 1..3 |-> ValidPath(cityQueueOf(imgCity)[i])],
                                   aboutHeight)
    /\ imgPc' = ImagePcAfter(imgDoc', "done")
    /\ UNCHANGED <<imgDisk, imgGallery, imgDirections, imgCity, imgIndex>>
    /\ UNCHANGED exceptImageVars

ImageNext ==
    \/ ImageGalleryStart
    \/ ImageGalleryImage
    \/ ImageGalleryDone
    \/ ImageCityMapPage

ImageSpec == ImageInit /\ [][ImageNext]_vars

\* ---------------------------------------------------- the cover page, alone
CoverInit ==
    /\ ExceptCoverIdle
    /\ covCover \in CoverLists(MaxImages)
    /\ covProperty \in CoverLists(MaxGallery)
    /\ covMain = "null"
    /\ covDrawn = <<>>
    /\ covPc = "main"

\* Lines 176-195: the hero image is chosen and drawn.
CoverMainImage ==
    /\ covPc = "main"
    /\ covMain' = mainImagePathOf(covCover \o covProperty)
    /\ \E addressHeight \in TitleHeights :
          covDrawn' = CoverMain(covMain', addressHeight)
    /\ covPc' = "thumbnails"
    /\ UNCHANGED <<covCover, covProperty>>
    /\ UNCHANGED exceptCoverVars

\* Lines 197-211: the three thumbnails.
CoverThumbnails ==
    /\ covPc = "thumbnails"
    /\ covDrawn' =
          LET thumbnails == thumbnailsOf(covCover \o covProperty, covMain)
              y == covDrawn[1].box.y + mainImageHeight + (2 * INCH) \div 10
          IN covDrawn \o CoverThumbnail(thumbnails, 0, y) \o CoverThumbnail(thumbnails, 1, y)
                      \o CoverThumbnail(thumbnails, 2, y)
    /\ covPc' = "done"
    /\ UNCHANGED <<covCover, covProperty, covMain>>
    /\ UNCHANGED exceptCoverVars

CoverNext ==
    \/ CoverMainImage
    \/ CoverThumbnails

CoverSpec == CoverInit /\ [][CoverNext]_vars

\* --------------------------------------------------- /proxy-image, alone
ProxyInit ==
    /\ ExceptProxyIdle
    /\ prxUrl \in ProxyUrls
    /\ prxFetched = <<>>
    /\ prxRedirectCount = 0
    /\ prxResponses = <<>>
    /\ prxPc = "received"

\* Lines 109-112 and 117-123: no url parameter, or one that is not a URL.
ProxyBadRequest ==
    /\ prxPc = "received"
    /\ prxUrl.kind \in {"missing", "invalid"}
    /\ prxResponses' = Append(prxResponses, BAD_REQUEST)
    /\ prxPc' = "done"
    /\ UNCHANGED <<prxUrl, prxFetched, prxRedirectCount>>
    /\ UNCHANGED exceptProxyVars

\* Lines 135-138: the host name holds none of the allowed domains.
ProxyForbidden ==
    /\ prxPc = "received"
    /\ prxUrl.kind = "url"
    /\ ~domainAllowed(prxUrl.hostname)
    /\ prxResponses' = Append(prxResponses, FORBIDDEN)
    /\ prxPc' = "done"
    /\ UNCHANGED <<prxUrl, prxFetched, prxRedirectCount>>
    /\ UNCHANGED exceptProxyVars

\* Lines 141-154 and 192: fetchImage(imageUrl), the first protocol.get.
ProxyFetch ==
    /\ prxPc = "received"
    /\ prxUrl.kind = "url"
    /\ domainAllowed(prxUrl.hostname)
    /\ prxFetched' = Append(prxFetched, prxUrl.hostname)
    /\ prxRedirectCount' = 0
    /\ prxPc' = "fetching"
    /\ UNCHANGED <<prxUrl, prxResponses>>
    /\ UNCHANGED exceptProxyVars

\* Lines 156-160 and 144-154: the answer is a redirect with a Location;
\* fetchImage(redirectUrl, redirectCount + 1) answers 503 past the fifth
\* redirect and calls protocol.get on the new URL otherwise.
ProxyRedirect ==
    /\ prxPc = "fetching"
    /\ \E location \in ProxyHosts :
          IF prxRedirectCount + 1 > MaxRedirects
          THEN /\ prxResponses' = Append(prxResponses, UNAVAILABLE)
               /\ prxPc' = "done"
               /\ UNCHANGED <<prxFetched, prxRedirectCount>>
          ELSE /\ prxFetched' = Append(prxFetched, location)
               /\ prxRedirectCount' = prxRedirectCount + 1
               /\ UNCHANGED <<prxResponses, prxPc>>
    /\ UNCHANGED prxUrl
    /\ UNCHANGED exceptProxyVars

\* Lines 162-169 and 183-189: another status than 200, or a failed
\* connection: 503 unless a response was sent.
ProxyFetchFails ==
    /\ prxPc = "fetching"
    /\ prxResponses' = IF headersSent(prxResponses) THEN prxResponses
                       ELSE Append(prxResponses, UNAVAILABLE)
    /\ prxPc' = "done"
    /\ UNCHANGED <<prxUrl, prxFetched, prxRedirectCount>>
    /\ UNCHANGED exceptProxyVars

\* Lines 171-182: status 200: the image is piped to the response unless
\* one was sent.
ProxyPipe ==
    /\ prxPc = "fetching"
    /\ prxResponses' = IF headersSent(prxResponses) THEN prxResponses
                       ELSE Append(prxResponses, PROXY_OK)
    /\ prxPc' = "done"
    /\ UNCHANGED <<prxUrl, prxFetched, prxRedirectCount>>
    /\ UNCHANGED exceptProxyVars

ProxyNext ==
    \/ ProxyBadRequest
    \/ ProxyForbidden
    \/ ProxyFetch
    \/ ProxyRedirect
    \/ ProxyFetchFails
    \/ ProxyPipe

ProxySpec == ProxyInit /\ [][ProxyNext]_vars

\* ================================================================ claims
PageSecs(p) == {p[k].sec : k \in 1..Len(p)}

PagesOf(sec) == {i \in 1..Len(pages) : sec \in PageSecs(pages[i])}

Max(a, b) == IF a >= b THEN a ELSE b

\* The section order the specification documents.
DocumentedOrder == <<"cover", "investment", "keyinfo", "otherinfo", "floor", "gallery", "citymap">>

DocumentedRank(sec) == CHOOSE k \in 1..Len(DocumentedOrder) : DocumentedOrder[k] = sec

\* generatePDF is past the investment section / past the floor plans.
PastInvestment == pc \in {"keyinfo", "otherinfo", "floor", "gallery", "galleryloop", "citymap", "end"}
                  \/ (pc = "returned" /\ Len(pages) > 0)

PastFloorPlans == pc \in {"gallery", "galleryloop", "citymap", "end"} \/ docEnded

\* C1: in every run that reaches doc.end(), the first page is the cover, the
\* last page is the city map, every page holds one section at most, and no
\* page of a later section precedes a page of an earlier section.
C1_PageOrder ==
    docEnded =>
        /\ PageSecs(pages[1]) = {"cover"}
        /\ PageSecs(pages[Len(pages)]) = {"citymap"}
        /\ \A i \in 1..Len(pages) : Cardinality(PageSecs(pages[i])) <= 1
        /\ \A i, j \in 1..Len(pages) :
              i < j => \A a \in PageSecs(pages[i]), b \in PageSecs(pages[j]) :
                          DocumentedRank(a) <= DocumentedRank(b)

C1_Witness ==
    /\ docEnded
    /\ Cardinality(PagesOf("investment")) >= 2
    /\ Cardinality(PagesOf("floor")) >= 2
    /\ Cardinality(PagesOf("gallery")) >= 2

\* C2: for a normalized list of N >= 1 calculators, the sections built so
\* far occupy pages 2, 3, ... in list order, one page each, every page
\* holding exactly its own header and its section; once the loop is over
\* the investment section is exactly pages 2..N+1.
C2_InvestmentPages ==
    LET N == Len(selectedCalculators)
        built == IF pc = "section" THEN index ELSE IF PastInvestment THEN N ELSE 0
    IN N >= 1 =>
        /\ \A k \in 1..built :
              pages[k + 1] = <<Op("header", "investment", "logo", HEADER_TOP_OFFSET),
                               Op("calc", "investment", selectedCalculators[k], contentY)>>
        /\ (built >= 1 => PagesOf("investment") = 2..(built + 1))

C2_Witness ==
    /\ PastInvestment
    /\ Len(selectedCalculators) = MaxCalcs
    /\ PagesOf("investment") = 2..(MaxCalcs + 1)

\* C3: once the floor plans are built, the floor-plan section occupies
\* exactly max(1, k) pages for k supplied paths.
C3_FloorPlanPages ==
    PastFloorPlans => Cardinality(PagesOf("floor")) = Max(1, Len(images.floor_plans))

\* C4: with an empty gallery no page lies between the last floor-plan page
\* and the city-map page, and the ended document has exactly
\* 1 + N + 2 + max(1, k) + 1 pages.
C4_NoGalleryPage ==
    (docEnded /\ Len(GalleryImages(images)) = 0) =>
        /\ \A c \in PagesOf("citymap") : (c - 1) \in PagesOf("floor")
        /\ Len(pages) = 1 + Len(selectedCalculators) + 2 + Max(1, Len(images.floor_plans)) + 1

\* The image operations of the gallery, in drawing order.
RECURSIVE Flatten(_)
Flatten(doc) == IF doc = <<>> THEN <<>> ELSE Head(doc) \o Flatten(Tail(doc))

IsGalleryImage(o) == o.sec = "gallery" /\ o.op = "image"

GalleryImageOps == SelectSeq(Flatten(pages), IsGalleryImage)

\* C5: gallery images are drawn in input order; no image box extends below
\* A4_HEIGHT - MARGIN; every gallery page starts with the header and the
\* 'Property Images' title, followed by images only; and a gallery step
\* starts a new page if and only if the image's box at the current Y would
\* extend past A4_HEIGHT - MARGIN.
C5_GalleryState ==
    /\ (pc = "galleryloop" => Len(GalleryImageOps) = index)
    /\ \A k \in 1..Len(GalleryImageOps) :
          /\ GalleryImageOps[k].arg = GalleryImages(images)[k]
          /\ GalleryImageOps[k].y + galleryHeight <= A4_HEIGHT - MARGIN
    /\ \A i \in PagesOf("gallery") :
          /\ Len(pages[i]) >= 2
          /\ pages[i][1] = Op("header", "gallery", "logo", HEADER_TOP_OFFSET)
          /\ pages[i][2] = Op("title", "gallery", "Property Images", contentY)
          /\ \A k \in 3..Len(pages[i]) : IsGalleryImage(pages[i][k])

C5_GalleryStep ==
    (pc = "galleryloop" /\ index' = index + 1) =>
        ((Len(pages') = Len(pages) + 1) <=> (currentY + galleryHeight > A4_HEIGHT - MARGIN))

C5_GalleryLayout == []C5_GalleryState /\ [][C5_GalleryStep]_vars

C5_Witness ==
    /\ pc = "galleryloop"
    /\ index = 3
    /\ Cardinality(PagesOf("gallery")) = 2
    /\ Len(pages[Len(pages)]) = 3

\* C6: the call settles, exactly once: the promise leaves "pending" in every
\* run and never changes afterwards; it is fulfilled only after 'finish';
\* it is rejected once the stream has emitted 'error' and once a
\* page-building step has thrown.
Thrown == pc = "returned" /\ stream # "none" /\ ~docEnded

C6_Settles ==
    /\ <>(promise # "pending")
    /\ [][promise # "pending" => promise' = promise]_vars
    /\ [](promise = "fulfilled" => stream = "finished")
    /\ [](stream = "errored" => promise = "rejected")
    /\ [](Thrown => promise = "rejected")

C6_Witness == Thrown /\ promise = "rejected" /\ Len(pages) >= 3

\* C7: once the call has settled, the output stream is not left open.
C7_StreamClosed == promise # "pending" => stream \in {"none", "finished", "errored"}

\* C8: for an output path that is null, not a string, empty or unwritable,
\* nothing is drawn while the call is not yet rejected.
C8_RejectedBeforeRendering ==
    (outputPath # "ok" /\ promise = "pending") => Flatten(pages) = <<>>

\* C9: two requests in flight never share an output path, and a response
\* carries only the document generated for its own request.
InFlight(r) == req[r].pc \in {"generating", "streaming", "closing"}

C9_RequestsIsolated ==
    /\ \A a, b \in Requests :
          (a # b /\ InFlight(a) /\ InFlight(b)) => req[a].outPath # req[b].outPath
    /\ \A r \in Requests : req[r].response \in {0, r, SERVER_ERROR}

Zero == Num(0)

Hundred == Num(100)

\* x% of y, as the formulas write it: y * (x / 100)
PercentOf(x, y) == Mul(y, Div(x, Hundred))

\* (profit / basis) * 100, and 0 when the basis is not positive
GuardedRatio(profit, basis) ==
    IF Gt(basis, Zero) THEN Mul(Div(profit, basis), Hundred) ELSE Zero

\* x rounded to two decimals
Round2(x) == Div(Round(Mul(x, Hundred)), Hundred)

\* The calculator the documented dispatch table names for an input.
Documented(d) ==
    LET t == d.calculator_type
    IN IF t \in {"brr", "flip", "holiday-let", "rent-to-hmo", "rent-to-serviced"}
       THEN t ELSE "standard-btl"

\* calculateInvestment returned, and the table names calculator c for its input.
Returned(c) == calcPc = "returned" /\ Documented(calcInput) = c

\* The input is the base input b, whatever its calculator_type.
InputIs(b) == \A f \in Fields : calcInput[f] = b[f]

\* C11: calculateInvestment returns the standard-btl result for the types
\* 'standard-btl' and 'purchase' and for an absent type, the result of their
\* own calculator for 'brr', 'flip', 'holiday-let', 'rent-to-hmo' and
\* 'rent-to-serviced', and exactly the standard-btl result, not an error,
\* for every other type.
C11_Dispatch ==
    calcPc = "returned" =>
        LET t == calcInput.calculator_type
        IN /\ t \in {"standard-btl", "purchase", Undefined}
                => calcResult = calculateStandardBTL(calcInput)
           /\ t = "brr" => calcResult = calculateBRR(calcInput)
           /\ t = "flip" => calcResult = calculateFlip(calcInput)
           /\ t = "holiday-let" => calcResult = calculateHolidayLet(calcInput)
           /\ t = "rent-to-hmo" => calcResult = calculateRentToHMO(calcInput)
           /\ t = "rent-to-serviced" => calcResult = calculateRentToServiced(calcInput)
           /\ t \notin {"standard-btl", "purchase", Undefined, "brr", "flip", "holiday-let",
                        "rent-to-hmo", "rent-to-serviced"}
                => /\ calcResult = calculateStandardBTL(calcInput)
                   /\ "error" \notin DOMAIN calcResult

\* An unlisted type was given with the buy-to-let example and the result is
\* the standard-btl mapping, which no other calculator returns.
C11_Witness ==
    /\ calcPc = "returned"
    /\ calcInput.calculator_type = "commercial"
    /\ InputIs(BTLExample)
    /\ calcResult.mortgageAmount = Num(150000)
    /\ calcResult # calculateBRR(calcInput)

\* The basis and the profit of a calculator's roi, read from its result mapping.
RoiBasis(c, r) ==
    CASE c = "standard-btl" -> r.totalInvestment
      [] c = "brr" -> r.netInvestment
      [] c = "flip" -> r.totalInvestment
      [] c = "holiday-let" -> r.depositAmount
      [] OTHER -> r.annualRentPaid

RoiProfit(c, r) == IF c = "flip" THEN r.grossProfit ELSE r.annualProfit

\* C12: for each of the six calculators and every input, roi is
\* (profit / basis) * 100 when the basis is positive and 0 when it is not,
\* and is never NaN or infinite; the basis is deposit + purchase costs
\* (standard-btl), netInvestment (brr), totalInvestment (flip), the deposit
\* (holiday-let), annualRentPaid (rent-to-hmo, rent-to-serviced).
C12_Roi ==
    calcPc = "returned" =>
        LET c == Documented(calcInput)
            basis == RoiBasis(c, calcResult)
        IN /\ calcResult.roi = GuardedRatio(RoiProfit(c, calcResult), basis)
           /\ isFinite(calcResult.roi)
           /\ c = "standard-btl" =>
                 basis = Add(calcResult.depositAmount,
                             Add(Add(Add(parseCurrency(calcInput.stamp_duty),
                                         parseCurrency(calcInput.survey_cost)),
                                     parseCurrency(calcInput.legal_fees)),
                                 parseCurrency(calcInput.loan_setup)))

\* The documented standard-btl formulas, on the result mapping r, the
\* mortgage interest it was computed with and the input mapping d.
StandardBTLFormulas(r, interest, d) ==
    /\ r.depositAmount = PercentOf(PercentOr(d.deposit_percent, Num(20)), r.purchasePrice)
    /\ r.mortgageAmount = Sub(r.purchasePrice, r.depositAmount)
    /\ r.annualRent = Mul(Num(12), r.monthlyRent)
    /\ r.rentalYield = GuardedRatio(r.annualRent, r.purchasePrice)
    /\ interest = PercentOf(PercentOr(d.mortgage_rate, Fin(58, 10)), r.mortgageAmount)
    /\ r.totalAnnualExpenses =
          Add(Add(Add(Add(Add(Add(interest, parseCurrency(d.council_tax)),
                              parseCurrency(d.repairs_maintenance)),
                          parseCurrency(d.utilities)),
                      parseCurrency(d.water)),
                  parseCurrency(d.broadband_tv)),
              parseCurrency(d.insurance))
    /\ r.annualProfit = Sub(r.annualRent, r.totalAnnualExpenses)

\* The values of the standard-btl example that the result mapping carries.
StandardBTLExampleValues(r) ==
    /\ r.depositAmount = Num(50000)
    /\ r.mortgageAmount = Num(150000)
    /\ r.annualRent = Num(14400)
    /\ r.rentalYield = Fin(72, 10)
    /\ r.totalAnnualExpenses = Num(7815)
    /\ r.annualProfit = Num(6585)
    /\ r.roi = Fin(1317, 100)

C14_Flip ==
    Returned("flip") =>
        LET r == calcResult
            saleCosts == Add(parseCurrency(calcInput.legal_fees_sale),
                             parseCurrency(calcInput.estate_agent_fees))
        IN /\ r.totalInvestment =
                 Add(Add(Add(r.purchasePrice, r.refurbCost),
                         Add(Add(parseCurrency(calcInput.stamp_duty),
                                 parseCurrency(calcInput.survey_cost)),
                             parseCurrency(calcInput.legal_fees))),
                     parseCurrency(calcInput.finance_cost))
           /\ r.grossProfit = Sub(Sub(r.salePrice, r.totalInvestment), saleCosts)
           /\ r.roi = GuardedRatio(r.grossProfit, r.totalInvestment)
           /\ r.monthlyROI = (IF Gt(r.holdingPeriod, Zero)
                              THEN Div(r.roi, r.holdingPeriod) ELSE Zero)
           /\ InputIs(FlipExample) =>
                 /\ r.totalInvestment = Num(126500)
                 /\ saleCosts = Num(4000)
                 /\ r.grossProfit = Num(49500)
                 /\ Round2(r.roi) = Fin(3913, 100)
                 /\ Round2(r.monthlyROI) = Fin(652, 100)

\* The flip example was calculated.
C14_Witness ==
    /\ Returned("flip")
    /\ InputIs(FlipExample)
    /\ calcResult.grossProfit = Num(49500)

\* C15: the brr result follows the documented formulas for every input:
\* initialMortgage = price - deposit, refinanceAmount = afterRefurbValue *
\* refinanceLTV%, moneyBack = refinanceAmount - initialMortgage,
\* netInvestment = (deposit + refurbCost) - moneyBack, rentalYield =
\* annualRent / afterRefurbValue * 100 (0 when afterRefurbValue <= 0) and
\* roi = annualProfit / netInvestment * 100 (0 when netInvestment <= 0).
C15_BRR ==
    Returned("brr") =>
        LET r == calcResult
            initialMortgage == Sub(r.purchasePrice, r.depositAmount)
        IN /\ r.refinanceAmount =
                 PercentOf(PercentOr(calcInput.refinance_ltv, Num(75)), r.afterRefurbValue)
           /\ r.moneyBack = Sub(r.refinanceAmount, initialMortgage)
           /\ r.netInvestment = Sub(Add(r.depositAmount, r.refurbCost), r.moneyBack)
           /\ r.rentalYield = GuardedRatio(r.annualRent, r.afterRefurbValue)
           /\ r.roi = GuardedRatio(r.annualProfit, r.netInvestment)

\* A refinance that returns money: 70% of 260000 against a 150000 mortgage.
C15_Witness ==
    /\ Returned("brr")
    /\ InputIs(FullExample)
    /\ calcResult.moneyBack = Num(32000)
    /\ calcResult.netInvestment = Num(38000)
    /\ Gt(calcResult.roi, Zero)

\* Every local constant of the calculator the table names for input d.
LocalsOf(c, d) ==
    CASE c = "standard-btl" -> StandardBTLLocals(d)
      [] c = "brr" -> BRRLocals(d)
      [] c = "flip" -> FlipLocals(d)
      [] c = "holiday-let" -> HolidayLetLocals(d)
      [] c = "rent-to-hmo" -> RentToHMOLocals(d)
      [] OTHER -> RentToServicedLocals(d)

\* The percentage-like fields of each calculator: the input field, the local
\* constant it is read into and its documented default.
Percentages(c) ==
    LET deposit == [field |-> "deposit_percent", local |-> "depositPercent", default |-> Num(20)]
        rate == [field |-> "mortgage_rate", local |-> "mortgageRate", default |-> Fin(58, 10)]
        fee == [field |-> "management_fee", local |-> "managementFeePercent",
                default |-> Num(20)]
        occupancy(default) ==
            [field |-> "occupancy_rate", local |-> "occupancyRate", default |-> Num(default)]
    IN CASE c = "standard-btl" -> {deposit, rate}
         [] c = "brr" -> {deposit, rate,
                          [field |-> "refinance_ltv", local |-> "refinanceLTV",
                           default |-> Num(75)]}
         [] c = "flip" -> {[field |-> "holding_period", local |-> "holdingPeriod",
                            default |-> Num(6)]}
         [] c = "holiday-let" -> {deposit, rate, occupancy(50), fee}
         [] c = "rent-to-hmo" -> {occupancy(80),
                                  [field |-> "number_of_rooms", local |-> "numberOfRooms",
                                   default |-> Num(1)]}
         [] OTHER -> {occupancy(60), fee}

\* The input mapping d with every percentage-like field of calculator c
\* given its documented default as a number.
WithDefaults(c, d) ==
    [f \in DOMAIN d |->
        IF \E p \in Percentages(c) : p.field = f
        THEN VNumber((CHOOSE p \in Percentages(c) : p.field = f).default)
        ELSE d[f]]

\* A supplied value is numeric when parseFloat makes a number of it.
IsNumeric(v) == parseFloat(v).k # "nan"

\* C17: every percentage-like field is used at its supplied value when that
\* value is numeric and at its documented default (deposit_percent 20,
\* mortgage_rate 5.8, refinance_ltv 75, holding_period 6, occupancy 50 / 80 /
\* 60 for holiday-let / HMO / serviced, management fee 20, rooms 1) when it
\* is absent or not numeric; with an empty input every calculator returns
\* what it returns when exactly those defaults are supplied.
C17_Defaults ==
    calcPc = "returned" =>
        LET c == Documented(calcInput)
        IN /\ \A p \in Percentages(c) :
                 LocalsOf(c, calcInput)[p.local] =
                     IF IsNumeric(calcInput[p.field])
                     THEN parseFloat(calcInput[p.field]) ELSE p.default
           /\ InputIs(EmptyInput) =>
                 calcResult = calculateInvestment(WithDefaults(c, calcInput))

\* C19: every field of every calculator's result mapping is a finite number
\* for every input mapping, whether its fields are missing, empty,
\* malformed, numbers or strings such as 'Infinity'.
C19_Finite ==
    calcPc = "returned" => \A key \in DOMAIN calcResult : isFinite(calcResult[key])

\* ------------------------------------------------- parsing and formatting
\* The missing, empty and non-numeric values: absent, null, "", "  ", "abc",
\* "£" and "(500)".
NotNumbers ==
    {VUndefined, VNull, VString(<<>>), VString(<<" ", " ">>), VString(<<"a", "b", "c">>),
     VString(<<"£">>), VString(<<"(", "5", "0", "0", ")">>)}

\* The currency-like values and the number each one writes: "£1,200",
\* "£200,000", "1 200.50", 150, 5.8, "-500", "0" and 0.
CurrencyLike ==
    {[value |-> VString(<<"£", "1", ",", "2", "0", "0">>), number |-> Num(1200)],
     [value |-> VString(<<"£", "2", "0", "0", ",", "0", "0", "0">>), number |-> Num(200000)],
     [value |-> VString(<<"1", " ", "2", "0", "0", ".", "5", "0">>), number |-> Fin(12005, 10)],
     [value |-> VNumber(Num(150)), number |-> Num(150)],
     [value |-> VNumber(Fin(58, 10)), number |-> Fin(58, 10)],
     [value |-> VString(<<"-", "5", "0", "0">>), number |-> Num(-500)],
     [value |-> VString(<<"0">>), number |-> Num(0)],
     [value |-> VNumber(Num(0)), number |-> Num(0)]}

C18_RoundTrip ==
    curPc = "roundtrip" => curParsed = Round(curX)

\* -------------------------------------------------------- the EPC chart
\* The documented bands, from the top of the chart down.
DocumentedBands ==
    <<[grade |-> "A", scores |-> 92..100], [grade |-> "B", scores |-> 81..91],
      [grade |-> "C", scores |-> 69..80], [grade |-> "D", scores |-> 55..68],
      [grade |-> "E", scores |-> 39..54], [grade |-> "F", scores |-> 21..38],
      [grade |-> "G", scores |-> 1..20]>>

\* The vertical centre of the bar drawn for a grade.
BarCentre(grade) ==
    LET bar == CHOOSE b \in {epcBars[i] : i \in DOMAIN epcBars} : b.grade = grade
    IN bar.yPos + barHeight \div 2

\* C20: a score from 1 to 100 is in exactly one of the bands G 1-20, F 21-38,
\* E 39-54, D 55-68, C 69-80, B 81-91, A 92-100 and the badge carries that
\* band's letter (84 gives B, 20 gives G); a score outside 1..100 (0, 101)
\* gives G; and each of the two badges, current and potential, is centred on
\* the bar of the letter printed on it.
C20_EpcBands ==
    epcPc = "drawn" =>
        \A k \in DOMAIN epcBadges :
            LET badge == epcBadges[k]
                holding == {i \in DOMAIN DocumentedBands :
                                badge.value \in DocumentedBands[i].scores}
            IN /\ badge.value = (IF k = 1 THEN currentScoreOf(epcData)
                                 ELSE potentialScoreOf(epcData))
               /\ badge.value \in 1..100 =>
                     /\ Cardinality(holding) = 1
                     /\ \A i \in holding : badge.letter = DocumentedBands[i].grade
               /\ badge.value \notin 1..100 => holding = {} /\ badge.letter = "G"
               /\ badge.value = 84 => badge.letter = "B"
               /\ badge.value = 20 => badge.letter = "G"
               /\ badge.yCenter = BarCentre(badge.letter)

\* The current score 101 is lettered G on the lowest bar and the potential
\* score 84 is lettered B on the second bar.
C20_Witness ==
    /\ epcPc = "drawn"
    /\ epcBadges[1].value = 101 /\ epcBadges[1].letter = "G"
    /\ epcBadges[1].yCenter = epcY + 6 * (barHeight + barSpacing) + barHeight \div 2
    /\ epcBadges[2].value = 84 /\ epcBadges[2].letter = "B"
    /\ epcBadges[2].yCenter = epcY + (barHeight + barSpacing) + barHeight \div 2

\* C21: the bar of the grade of rank r (A = 1 ... G = 7) is r/7 of the chart
\* width long, and the grade letter is drawn at or left of the clamp position
\* (0.32 inch left of the Current column).
C21_BarLengths ==
    epcPc = "drawn" =>
        \A i \in DOMAIN epcBars :
            /\ epcBars[i].width = Div(Mul(Num(epcChartWidth), Num(i)), Num(7))
            /\ ~Gt(epcBars[i].letterX, Num(epcBars[i].maxLetterX))

\* ------------------------------------------------- the active calculators
\* The calculators a selected_calculators value names: the items of a list,
\* the trimmed non-empty items of a comma-separated string, the one item a
\* bare scalar stands for, and none when the value is absent.
NamedCalculators(sel) ==
    CASE sel.kind = "array" -> sel.items
      [] sel.kind = "string" -> SplitTrimFilter(Split(sel.items))
      [] sel.kind = "scalar" -> <<"7">>
      [] OTHER -> <<>>

\* The documented precedence: the selected list when it names a calculator,
\* otherwise the calculator_type when set, otherwise standard-btl.
ActiveCalculators(d) ==
    IF NamedCalculators(d.selected_calculators) # <<>>
    THEN NamedCalculators(d.selected_calculators)
    ELSE IF d.calculator_type # Undefined THEN <<d.calculator_type>>
    ELSE <<"standard-btl">>

\* C22: once createInvestmentPage has resolved its list, the list is the
\* selected_calculators list when that names at least one calculator (a
\* comma-separated string split into its trimmed non-empty items, a bare
\* scalar as a one-element list), otherwise the single calculator_type when
\* it is set, otherwise standard-btl alone.
C22_Precedence ==
    pc = "section" => selectedCalculators = ActiveCalculators(data)

\* C28: once createInvestmentPage has resolved its list, the list is not
\* empty, whatever selected_calculators was, so at least one calculator
\* section is drawn.
C28_NonEmptyList ==
    pc = "section" => Len(selectedCalculators) >= 1

\* ------------------------------------------------- calculator sections
\* The breakdown rows and the field each shows: the key of the values, the
\* field of the input, and the default of a percentage (none for an amount).
BreakdownRows ==
    {[key |-> "depositPercent", field |-> "deposit_percent", percent |-> TRUE,
      default |-> Num(20)],
     [key |-> "mortgageRate", field |-> "mortgage_rate", percent |-> TRUE,
      default |-> Fin(58, 10)]}
    \cup {[key |-> p[1], field |-> p[2], percent |-> FALSE, default |-> Num(0)] :
            p \in {<<"stampDuty", "stamp_duty">>, <<"surveyCost", "survey_cost">>,
                   <<"legalFees", "legal_fees">>, <<"loanSetup", "loan_setup">>,
                   <<"councilTax", "council_tax">>, <<"repairs", "repairs_maintenance">>,
                   <<"utilities", "utilities">>, <<"water", "water">>,
                   <<"broadband", "broadband_tv">>, <<"insurance", "insurance">>}}

\* What a breakdown row shows for the value v of its field.
RowValue(row, v) ==
    IF row.percent THEN OrElse(parseFloat(v), row.default) ELSE pdfParseCurrency(v)

\* The sub-mapping has the field.
Present(calcData, f) == calcData[f] # VUndefined

\* C23: a value present in the calculator_<type> sub-mapping wins over the
\* top-level value of the same field, in the input given to the calculator
\* function and in the value its breakdown row shows, also when it is 0 or
\* the empty string; and the input's calculator_type is the type rendered.
C23_OverridesWin ==
    secPc = "rendered" =>
        /\ secInput.calculator_type = secType
        /\ \A f \in Fields : Present(secCalcData, f) => secInput[f] = secCalcData[f]
        /\ \A row \in BreakdownRows :
              Present(secCalcData, row.field) =>
                  secValues[row.key] = RowValue(row, secCalcData[row.field])

\* The sum of the numbers of a sequence.
RECURSIVE SumOf(_)
SumOf(seq) ==
    IF seq = <<>> THEN Num(0)
    ELSE CHOOSE t \in {Add(Head(seq), rest) : rest \in {SumOf(Tail(seq))}} : TRUE

\* C26: in a rendered section the bold Total of the annual expenses is the
\* sum of the seven expense rows above it, and Total Investment Required is
\* the sum of the five cost rows above it.
C26_TotalsAddUp ==
    secPc = "rendered" =>
        /\ secRows.expenses[8] = SumOf(SubSeq(secRows.expenses, 1, 7))
        /\ secRows.costs[6] = SumOf(SubSeq(secRows.costs, 1, 5))

\* C27: in a rendered section, flip included, the Monthly Profit shown is
\* the Annual Profit divided by 12 (as formatCurrency rounds it).
C27_MonthlyProfit ==
    secPc = "rendered" =>
        secRows.monthlyProfit = ShownAmount(Div(secValues.annualProfit, Num(12)))

\* ------------------------------------------------------- image placeholders
\* The image slots of a document, in the order they were drawn.
RECURSIVE ImageSlots(_)
ImageSlots(docPages) ==
    IF docPages = <<>> THEN <<>>
    ELSE SelectSeq(Head(docPages), LAMBDA o : o.op \in {"image", "placeholder"})
         \o ImageSlots(Tail(docPages))

\* The path leads to an image that can be drawn.
IsValidImage(disk, path) == path # "null" /\ disk[path] = "valid"

\* C24: a null path, a path with no file and a file that cannot be read never
\* abort the layout: the slot is filled by a gray rectangle of exactly the
\* requested box, and the number of pages, the operations on each page and
\* the Y cursor after every slot are those of the run in which every path is
\* a valid image of the same box.
C24_Placeholder ==
    /\ imgPc # "aborted"
    /\ ~imgDoc.thrown
    /\ Len(imgDoc.pages) = Len(imgRef.pages)
    /\ imgDoc.y = imgRef.y
    /\ \A p \in DOMAIN imgDoc.pages :
          /\ Len(imgDoc.pages[p]) = Len(imgRef.pages[p])
          /\ \A k \in DOMAIN imgDoc.pages[p] :
                LET drawn == imgDoc.pages[p][k]
                    valid == imgRef.pages[p][k]
                IN IF valid.op = "image"
                   THEN /\ drawn.box = valid.box
                        /\ drawn.op \in {"image", "placeholder"}
                        /\ drawn.op = "image" => IsValidImage(imgDisk, drawn.path)
                        /\ drawn.op = "placeholder" => drawn = Placeholder(valid.box.x,
                                                           valid.box.y, valid.box.width,
                                                           valid.box.height)
                   ELSE drawn = valid
    /\ imgPc \in {"galleryloop", "citymap", "done"} =>
          \A k \in 1..imgIndex :
              ImageSlots(imgDoc.pages)[k].op =
                  IF IsValidImage(imgDisk, imgGallery[k]) THEN "image" ELSE "placeholder"

\* A gallery of a null entry, a path with no file and a file that cannot be
\* read has been laid out over two pages, every slot a placeholder, and the
\* city map page after it.
C24_Witness ==
    /\ imgPc = "done"
    /\ imgGallery = <<"null", "a.jpg", "b.jpg">>
    /\ imgDisk["a.jpg"] = "missing"
    /\ imgDisk["b.jpg"] = "unreadable"
    /\ Len(imgDoc.pages) = 3
    /\ \A k \in 1..3 : ImageSlots(imgDoc.pages)[k].op = "placeholder"
    /\ ImageSlots(imgRef.pages)[3].op = "image"
    /\ ImageSlots(imgDoc.pages)[3].box = ImageSlots(imgRef.pages)[3].box

\* --------------------------------------------------------- the cover page
\* The positions of L that hold an image named for the front exterior.
ExteriorFronts(L) == {i \in DOMAIN L : L[i] # "null" /\ IsExteriorFront(L[i])}

\* The positions of L that hold an image.
Available(L) == {i \in DOMAIN L : L[i] # "null"}

Least(S) == CHOOSE i \in S : \A j \in S : i <= j

\* The position of the hero in L, 0 when L has no image.
HeroAt(L) ==
    IF ExteriorFronts(L) # {} THEN Least(ExteriorFronts(L))
    ELSE IF Available(L) # {} THEN Least(Available(L))
    ELSE 0

\* L without its element at position k.
Without(L, k) == [i \in 1..(Len(L) - (IF k \in DOMAIN L THEN 1 ELSE 0)) |->
                    IF i < k \/ k = 0 THEN L[i] ELSE L[i + 1]]

\* What a slot shows: the path of its image, "null" for the gray rectangle.
Shown(slot) == IF slot.op = "image" THEN slot.path ELSE "null"

\* C25: with L the cover list followed by the property list, the hero is the
\* first element of L whose file name contains both 'exterior' and 'front'
\* in any case, otherwise the first available image of L; the three
\* thumbnail slots show, in order, the first three elements of L other than
\* the chosen hero occurrence, and a slot with no remaining image is a gray
\* placeholder.
C25_CoverImages ==
    covPc = "done" =>
        LET L == covCover \o covProperty
            rest == Without(L, HeroAt(L))
        IN /\ Len(covDrawn) = 4
           /\ Shown(covDrawn[1]) = (IF HeroAt(L) = 0 THEN "null" ELSE L[HeroAt(L)])
           /\ \A i \in 1..3 :
                 Shown(covDrawn[i + 1]) = (IF i <= Len(rest) THEN rest[i] ELSE "null")

\* ------------------------------------------------------ temporary files
\* The handler of request r has answered and has nothing left to do.
Settled(r) == req[r].pc = "done"

\* C29: once a /generate request is over, with the document streamed or
\* with the 500 answer after a failed decoding or a rejected generatePDF,
\* none of the temporary files written for it exists any more and its
\* output file holds no document of its own; the bundled logo is never
\* deleted.
C29_TempFilesDeleted ==
    /\ DefaultLogo \in tempOnDisk
    /\ \A r \in Requests :
          Settled(r) =>
              /\ req[r].temp \cap tempOnDisk = {}
              /\ outFiles[req[r].outPath] # r

\* ------------------------------------------------------------ the proxy
\* The host is an allowed domain or a subdomain of one.
IsAllowedHost(hostname) ==
    \E domain \in allowedDomains :
        /\ Len(domain) <= Len(hostname)
        /\ SubSeq(hostname, Len(hostname) - Len(domain) + 1, Len(hostname)) = domain

\* C30: /proxy-image only fetches from allowed hosts: every URL fetched, the
\* request's and each redirect's through a chain of up to 5 redirects, has
\* an allowed host; a request whose host is not an allowed domain is
\* answered 403 and nothing is fetched; and at most one response is sent.
C30_AllowedFetches ==
    /\ \A i \in DOMAIN prxFetched : IsAllowedHost(prxFetched[i])
    /\ (prxUrl.kind = "url" /\ ~IsAllowedHost(prxUrl.hostname)) =>
          /\ prxFetched = <<>>
          /\ prxPc = "done" => prxResponses = <<FORBIDDEN>>
    /\ Len(prxResponses) <= 1

====
